---- MODULE Spec2Model ----
(***************************************************************************)
(* A model of the logger-data core of igbdatatools: the header/variant     *)
(* resolver (loggerdata/toa5/dataimport.py), the Record engine             *)
(* (loggerdata/importdefs.py), the scalar types it checks values with      *)
(* (datatypes.py), the metadata the two read (loggerdata/metadata.py) and  *)
(* the time-sequence quality check (loggerdata/qualitycheck.py).           *)
(*                                                                         *)
(* Strings that are only compared (names, units, environment fields) are   *)
(* TLA+ strings.  Strings that are parsed (row values) are sequences of    *)
(* one-character strings, so that the regular expressions of datatypes.py  *)
(* are modelled character by character.                                    *)
(***************************************************************************)
EXTENDS Integers, Sequences, FiniteSets, TLC

VARIABLES
    mds,      \* the Metadata objects of the process, by object id
    ntamper,  \* number of direct attribute assignments made to them so far
    hm,       \* the last header_match call: its arguments and its outcome
    recs,     \* the Record objects of the process (id = position)
    rop,      \* the last Record operation: receiver, operation, outcome
    ts,       \* the check_timeseq_strict generator: input, position, output
    inf,      \* a TypeInferrer object and the values sent to it
    imp,      \* the read_records generator: source, position, output
    call,     \* the last call of a function without state: arguments, outcome
    objs,     \* MdTable and Metadata objects made by their constructors, by id
    coll      \* the last MdCollection constructed: arguments and outcome

vars == <<mds, ntamper, hm, recs, rop, ts, inf, imp, call, objs, coll>>

----------------------------------------------------------------------------
(* Bounds of the model *)

MaxTamper == 1     \* direct assignments to a loaded Metadata
MaxRow    == 3     \* longest raw row
MaxRecs   == 3     \* Record objects alive at once
MaxSeq    == 4     \* longest timestamp sequence
MaxSend   == 3     \* values sent to one TypeInferrer
MaxFiles  == 2     \* files of one source of read_records
MaxCols   == 2     \* columns after TIMESTAMP in a table of a loaded document
MaxTime   == 3     \* last instant of a time range
MaxRanges == 2     \* time ranges in one set

\* MdTable and Metadata objects made in one behaviour
MaxTbls == 2
MaxMdObjs == 3
MaxArgs == 3      \* arguments of one MdCollection call
MaxWraps == 2     \* times a collection is wrapped again

----------------------------------------------------------------------------
(* Generic helpers *)

\* Python's None where the other values are TLA+ strings
NoneS == "None"
\* Python's None where the other values are integers
NoneI == -1
\* Python's None where the other values are character sequences; no value
\* of one-character strings equals it, the empty string <<>> included
None == <<"None">>

Range(s) == { s[i] : i \in DOMAIN s }

\* the subsequence of s at the positions satisfying keep
RECURSIVE IndicesWhere(_, _, _)
IndicesWhere(n, i, keep) ==
    IF i > n THEN <<>>
    ELSE (IF keep[i] THEN <<i>> ELSE <<>>) \o IndicesWhere(n, i + 1, keep)

SeqsUpTo(S, n) == UNION { [1..k -> S] : k \in 0..n }

----------------------------------------------------------------------------
(* Metadata model: loggerdata/metadata.py *)

\* a scalar type object of datatypes.py; NoType is Python's None
NoType == [kind |-> "None", precision |-> NoneI, scale |-> NoneI]
Type(k) == [kind |-> k, precision |-> NoneI, scale |-> NoneI]
Num(p, s) == [kind |-> "Num", precision |-> p, scale |-> s]

MdColumn(n, u, p, t, v) == [name |-> n, unit |-> u, prc |-> p, type |-> t, var |-> v]

\* MdBaseCol.hdr: the ColumnHeader of a column, None fields become ""
hdr(col) == << col.name,
               IF col.unit = NoneS THEN "" ELSE col.unit,
               IF col.prc = NoneS THEN "" ELSE col.prc >>

ColumnHeader(n, u, p) == <<n, u, p>>

EnvFields == <<"station_name", "logger_model", "logger_serial",
               "logger_os", "program_name", "program_sig">>

Toa5EnvMatch(st, mo, sig) ==
    [station_name |-> st, logger_model |-> mo, logger_serial |-> NoneS,
     logger_os |-> NoneS, program_name |-> NoneS, program_sig |-> sig]

EnvironmentLine(st, mo, sig, tn) ==
    [station_name |-> st, logger_model |-> mo, logger_serial |-> "12342",
     logger_os |-> "Std.03", program_name |-> "CPU:Test", program_sig |-> sig,
     table_name |-> tn]

\* a dict built by assigning the pairs <<key, value>> of a sequence in order:
\* a later assignment to the same key replaces the earlier one
DictOf(pairs) ==
    [ k \in { pairs[i][1] : i \in DOMAIN pairs } |->
        LET last == CHOOSE i \in DOMAIN pairs :
                       /\ pairs[i][1] = k
                       /\ \A j \in DOMAIN pairs : pairs[j][1] = k => j <= i
        IN  pairs[last][2] ]

\* a temporary variant map that records index 0 for every column
TempVarIdx_NoEnumerate(columns, vn) == [ i \in DOMAIN columns |-> 1 ]

\* load_logger_metadata, the "temporary variant map" entry of variant vn:
\* the positions of the columns that carry no tag or the tag vn
TempVarIdx(columns, vn) ==
    IndicesWhere(Len(columns), 1,
        [ i \in DOMAIN columns |-> columns[i].var = NoneS \/ columns[i].var = vn ])

\* a pair whose indices count the columns from 1
VariantPair_OneBased(columns, idx) ==
    << [ j \in DOMAIN idx |-> hdr(columns[idx[j]]) ],
       [ j \in DOMAIN idx |-> idx[j] ] >>

\* the <<headers, indices>> pair registered for a list of column positions;
\* indices are 0-based as in the source
VariantPair(columns, idx) ==
    << [ j \in DOMAIN idx |-> hdr(columns[idx[j]]) ],
       [ j \in DOMAIN idx |-> idx[j] - 1 ] >>

\* load_logger_metadata: the variant map of one table
LoadVariants(columns, jsvariants) ==
    LET tbl_vars0 == { columns[i].var : i \in DOMAIN columns } \ {NoneS}
        tbl_vars  == IF tbl_vars0 # {} /\ jsvariants # <<>>
                     THEN tbl_vars0 \cup {jsvariants[1]} ELSE tbl_vars0
        used      == IndicesWhere(Len(jsvariants), 1,
                        [ i \in DOMAIN jsvariants |-> jsvariants[i] \in tbl_vars ])
        tagged    == [ j \in DOMAIN used |->
                        VariantPair(columns, TempVarIdx(columns, jsvariants[used[j]])) ]
        allcols   == VariantPair(columns, [ i \in DOMAIN columns |-> i ])
        first     == IF jsvariants = <<>> THEN NoneS ELSE jsvariants[1]
    IN  IF tbl_vars0 # {}
        THEN DictOf(tagged \o <<allcols>>)
        ELSE DictOf(<< VariantPair(columns, TempVarIdx(columns, first)) >>)

MdTable(n, columns, variants, parent) ==
    [name |-> n, columns |-> columns, variants |-> variants, parent |-> parent]

\* load_logger_metadata: the Metadata object with id `self` built from a
\* document; Metadata.__post_init__ sets each table's parent to it
load_logger_metadata(js, self) ==
    [ logger_name    |-> js.logger_name,
      logger_type    |-> "TOA5",
      toa5_env_match |-> js.toa5_env_match,
      tz             |-> js.tz,
      variants       |-> js.variants,
      tables         |-> [ tn \in DOMAIN js.tables |->
                             MdTable(tn, js.tables[tn],
                                     LoadVariants(js.tables[tn], js.variants), self) ] ]

----------------------------------------------------------------------------
(* The metadata documents of the model *)

\* the table of tests/TestLogger.json in small: two variant tags that switch
\* two columns, here the two timestamp columns
HourlyColumns == <<
    MdColumn("Note",      NoneS, NoneS, NoType,                  NoneS),
    MdColumn("TIMESTAMP", "TS",  NoneS, Type("TimestampNoTz"),   "abc"),
    MdColumn("Stamp",     NoneS, "Smp", Type("TimestampWithTz"), "def") >>

\* a table without variant tags
PlainColumns == <<
    MdColumn("TIMESTAMP", "TS",    NoneS, Type("TimestampNoTz"), NoneS),
    MdColumn("RECORD",    "RN",    NoneS, Type("NonNegInt"),     NoneS) >>

Document(name, envmatch, tz, variants, columns) ==
    [ logger_name |-> name, toa5_env_match |-> envmatch, tz |-> tz,
      variants |-> variants, tables |-> [ tn \in {"Hourly"} |-> columns ] ]

MdIds == {1, 2}

\* timezones as minutes east of UTC: "tz":"UTC" and "tz":"-03:30"
Documents(id) ==
    IF id = 1
    THEN { Document("Foo", m, 0, <<"abc", "def">>, HourlyColumns) :
             m \in { Toa5EnvMatch("A", NoneS, NoneS), Toa5EnvMatch("A", NoneS, "1") } }
    ELSE { Document("Bar", m, -210, <<>>, PlainColumns) :
             m \in { Toa5EnvMatch("B", NoneS, NoneS), Toa5EnvMatch(NoneS, "X", NoneS),
                     Toa5EnvMatch(NoneS, NoneS, "2") } }

LoadedMetadatas ==
    { f \in [ MdIds -> UNION { { load_logger_metadata(d, id) : d \in Documents(id) } : id \in MdIds } ] :
        \A id \in MdIds : \E d \in Documents(id) : f[id] = load_logger_metadata(d, id) }

----------------------------------------------------------------------------
(* Exceptions: loggerdata/importdefs.py *)

\* the subclasses of DataImportError (itself a RuntimeError)
DataImportErrors ==
    {"DataImportError", "NoMetadataMatch", "NoTableMatch", "NoVariantMatch", "RecordError"}

\* the outcome of a call: a return value or a raised exception
Raised(exc, md, table_name, tblmd) ==
    [kind |-> "raise", exc |-> exc, md |-> md, table_name |-> table_name,
     tblmd |-> tblmd, variant |-> <<>>]
Returned(tblmd, variant) ==
    [kind |-> "return", exc |-> NoneS, md |-> 0, table_name |-> NoneS,
     tblmd |-> tblmd, variant |-> variant]

NoTbl == <<0, NoneS>>

\* NoTableMatch.__init__(self, message, *, md, table_name): both keyword
\* arguments are required; a call without one of them fails with TypeError
\* before any NoTableMatch exists
NoTableMatch(kw) ==
    IF {"md", "table_name"} \subseteq DOMAIN kw
    THEN Raised("NoTableMatch", kw.md, kw.table_name, NoTbl)
    ELSE Raised("TypeError", 0, NoneS, NoTbl)

\* NoVariantMatch.__init__(self, message, *, tblmd): tblmd is required
NoVariantMatch(kw) ==
    IF {"tblmd"} \subseteq DOMAIN kw
    THEN Raised("NoVariantMatch", 0, NoneS, kw.tblmd)
    ELSE Raised("TypeError", 0, NoneS, NoTbl)

----------------------------------------------------------------------------
(* Header/variant resolver: loggerdata/toa5/dataimport.py *)

\* matches with the test for None dropped: a field the pattern leaves open
\* is compared like any other
matches_NoneCompared(md, envline) ==
    IF md.logger_type = "TOA5"
    THEN \A i \in DOMAIN EnvFields :
            envline[EnvFields[i]] = md.toa5_env_match[EnvFields[i]]
    ELSE FALSE

\* header_match, lines 42-46: does metadata md match the environment line
matches(md, envline) ==
    IF md.logger_type = "TOA5"
    THEN \A i \in DOMAIN EnvFields :
            LET k == EnvFields[i]
                v == md.toa5_env_match[k]
            IN  ~ (v # NoneS /\ envline[k] # v)
    ELSE FALSE

\* header_match, lines 40-47: the matching metadatas, in search order
found(envline, metadatas) ==
    LET idx == IndicesWhere(Len(metadatas), 1,
                  [ i \in DOMAIN metadatas |-> matches(mds[metadatas[i]], envline) ])
    IN  [ j \in DOMAIN idx |-> metadatas[idx[j]] ]

\* header_match without the length check of lines 62-63
header_match_NoLengthCheck(envline, columns, metadatas) ==
    LET fnd == found(envline, metadatas)
    IN  IF Len(fnd) < 1 THEN Raised("NoMetadataMatch", 0, NoneS, NoTbl)
        ELSE IF Len(fnd) > 1 THEN Raised("RuntimeError", 0, NoneS, NoTbl)
        ELSE LET md == mds[fnd[1]]
             IN  IF envline.table_name \notin DOMAIN md.tables
                 THEN NoTableMatch([table_name |-> envline.table_name])
                 ELSE LET tblmd == md.tables[envline.table_name]
                      IN  IF columns \notin DOMAIN tblmd.variants
                          THEN NoVariantMatch(<<>>)
                          ELSE Returned(<<fnd[1], tblmd.name>>, tblmd.variants[columns])

\* header_match(envline, columns, metadatas): metadatas is the sequence of
\* the ids of the Metadata objects searched
header_match(envline, columns, metadatas) ==
    LET fnd == found(envline, metadatas)
    IN  IF Len(fnd) < 1 THEN Raised("NoMetadataMatch", 0, NoneS, NoTbl)
        ELSE IF Len(fnd) > 1 THEN Raised("RuntimeError", 0, NoneS, NoTbl)
        ELSE LET md == mds[fnd[1]]
             IN  IF envline.table_name \notin DOMAIN md.tables
                 THEN NoTableMatch([table_name |-> envline.table_name])
                 ELSE LET tblmd == md.tables[envline.table_name]
                      IN  IF columns \notin DOMAIN tblmd.variants
                          THEN NoVariantMatch(<<>>)
                          ELSE LET variant == tblmd.variants[columns]
                               IN  IF Len(variant) # Len(columns)
                                   THEN Raised("RuntimeError", 0, NoneS, NoTbl)
                                   ELSE Returned(<<fnd[1], tblmd.name>>, variant)

----------------------------------------------------------------------------
(* Inputs of the resolver *)

EnvLines ==
    { EnvironmentLine(st, mo, sig, tn) :
        st \in {"A", "B"}, mo \in {"X"}, sig \in {"1", "2"}, tn \in {"Hourly", "Daily"} }

\* the headers a file may carry: those the loader registers for the two
\* tables, and one that no table knows
HeaderTuples ==
    UNION { DOMAIN LoadVariants(c[1], c[2]) :
              c \in { <<HourlyColumns, <<"abc", "def">> >>, <<PlainColumns, <<>> >> } }
    \cup { << ColumnHeader("Foobar", "", "") >> }

SearchSets == { <<>>, <<1>>, <<2>>, <<1, 2>>, <<2, 1>>, <<1, 1>> }

\* index tuples a test assigns into a variant map
TamperTuples == { <<0>>, <<0, 1>>, <<0, 2, 1>> }

NoCall ==
    [called |-> FALSE, envline |-> EnvironmentLine("A", "X", "1", "Hourly"),
     columns |-> <<>>, metadatas |-> <<>>, out |-> Returned(NoTbl, <<>>)]

IdleRecs == <<>>
IdleRop  == [op |-> "none", self |-> 0, out |-> "none", ret |-> 0, err |-> NoneS,
             col |-> <<>>, val |-> None, fullrow |-> <<>>]
IdleTs   == [pc |-> "idle", interval |-> "UNDEF", seq |-> <<>>, i |-> 0, out |-> <<>>]
IdleInf   == [pc |-> "none"]
IdleImp   == [pc |-> "idle"]
IdleCall  == [fn |-> "none"]
IdleObjs  == [tables |-> <<>>, mds |-> <<>>, last |-> [op |-> "none"]]
IdleColl  == [pc |-> "none"]

Init ==
    /\ mds \in LoadedMetadatas
    /\ ntamper = 0
    /\ hm = NoCall
    /\ recs = IdleRecs
    /\ rop = IdleRop
    /\ ts = IdleTs
    /\ inf = IdleInf /\ imp = IdleImp /\ call = IdleCall
    /\ objs = IdleObjs /\ coll = IdleColl

\* a call of header_match; hm keeps the call until the metadata changes
HeaderMatch ==
    /\ ~ hm.called
    /\ \E envline \in EnvLines, columns \in HeaderTuples, metadatas \in SearchSets :
        /\ hm' = [called |-> TRUE, envline |-> envline, columns |-> columns,
                  metadatas |-> metadatas,
                  out |-> header_match(envline, columns, metadatas)]
        /\ UNCHANGED <<mds, ntamper, recs, rop, ts, inf, imp, call, objs, coll>>

\* md.logger_type = -1 (tests/test_toa5_dataimport.py:135)
SetLoggerType ==
    /\ ntamper < MaxTamper
    /\ \E id \in MdIds :
        /\ mds' = [mds EXCEPT ![id].logger_type = "-1"]
        /\ ntamper' = ntamper + 1
        /\ hm' = NoCall
        /\ UNCHANGED <<recs, rop, ts, inf, imp, call, objs, coll>>

\* md.tables[tn].variants[key] = value (tests/test_toa5_dataimport.py:150)
SetVariant ==
    /\ ntamper < MaxTamper
    /\ \E id \in MdIds, key \in HeaderTuples, value \in TamperTuples :
        \E tn \in DOMAIN mds[id].tables :
            /\ mds' = [mds EXCEPT ![id].tables[tn].variants =
                          [ k \in DOMAIN @ \cup {key} |-> IF k = key THEN value ELSE @[k] ]]
            /\ ntamper' = ntamper + 1
            /\ hm' = NoCall
            /\ UNCHANGED <<recs, rop, ts, inf, imp, call, objs, coll>>

Next == HeaderMatch \/ SetLoggerType \/ SetVariant

Spec == Init /\ [][Next]_vars

----------------------------------------------------------------------------
(* Scalar types: datatypes.py.  A value is a sequence of characters. *)

DigitChars == <<"0", "1", "2", "3", "4", "5", "6", "7", "8", "9">>
Digits == Range(DigitChars)

\* int() of one digit; the character of one digit
DigitVal(c) == (CHOOSE i \in DOMAIN DigitChars : DigitChars[i] = c) - 1
DigitChar(n) == DigitChars[n + 1]

AllDigits(v) == \A i \in DOMAIN v : v[i] \in Digits

\* value.lower() == 'nan'
IsNan(v) ==
    /\ Len(v) = 3
    /\ v[1] \in {"n", "N"} /\ v[2] \in {"a", "A"} /\ v[3] \in {"n", "N"}

\* a <= b for two strings of digits without leading zeros, as integers
RECURSIVE LexLeq(_, _, _)
LexLeq(a, b, i) ==
    IF i > Len(a) THEN TRUE
    ELSE IF a[i] # b[i] THEN DigitVal(a[i]) < DigitVal(b[i])
    ELSE LexLeq(a, b, i + 1)
DecLeq(a, b) == Len(a) < Len(b) \/ (Len(a) = Len(b) /\ LexLeq(a, b, 1))
DecLess(a, b) == DecLeq(a, b) /\ a # b

Two31 == <<"2","1","4","7","4","8","3","6","4","8">>
Two63 == <<"9","2","2","3","3","7","2","0","3","6","8","5","4","7","7","5","8","0","8">>

\* [0-9]+ not starting with 0[0-9]
UIntShape(v) ==
    /\ Len(v) >= 1
    /\ AllDigits(v)
    /\ ~ (Len(v) >= 2 /\ v[1] = "0")

\* NonNegInt.check: _uint_regex and 0 <= int(value) < 2**31
NonNegInt_check(v) ==
    IsNan(v) \/ (UIntShape(v) /\ DecLess(v, Two31))

\* BigInt.check: _int_regex and -2**63 <= int(value) < 2**63
BigInt_check(v) ==
    \/ IsNan(v)
    \/ /\ Len(v) >= 1 /\ v[1] = "-"
       /\ UIntShape(Tail(v)) /\ DecLeq(Tail(v), Two63)
    \/ /\ UIntShape(v) /\ DecLess(v, Two63)

\* the position of the first "." of v, 0 if there is none (str.find + 1)
FirstDot(v) ==
    IF \E i \in DOMAIN v : v[i] = "."
    THEN CHOOSE i \in DOMAIN v : v[i] = "." /\ \A j \in 1..(i - 1) : v[j] # "."
    ELSE 0

\* Num._num_regex: (?!-?\.?\Z) -? int-part (\. frac-part)? where the integer
\* part is \d{0,precision-scale} (0* when that is 0, \d* without precision)
\* and the fraction part \d{0,scale} (0* when scale is 0, \d* without precision)
Num_check(t, v) ==
    \/ IsNan(v)
    \/ LET body == IF Len(v) >= 1 /\ v[1] = "-" THEN Tail(v) ELSE v
           dot  == FirstDot(body)
           ip   == IF dot = 0 THEN body ELSE SubSeq(body, 1, dot - 1)
           fp   == IF dot = 0 THEN <<>> ELSE SubSeq(body, dot + 1, Len(body))
           sc   == IF t.scale = NoneI THEN 0 ELSE t.scale
           Part(x, n) == IF n = 0 THEN \A i \in DOMAIN x : x[i] = "0"
                         ELSE Len(x) <= n
       IN  /\ body # <<>> /\ body # <<".">>
           /\ AllDigits(ip) /\ AllDigits(fp)
           /\ t.precision # NoneI => Part(ip, t.precision - sc) /\ Part(fp, sc)

\* \d{4}-\d\d-\d\d \d\d:\d\d:\d\d, "d" standing for \d
TimestampPattern ==
    <<"d","d","d","d","-","d","d","-","d","d"," ","d","d",":","d","d",":","d","d">>

MatchesPattern(v, pat) ==
    /\ Len(v) = Len(pat)
    /\ \A i \in DOMAIN pat : IF pat[i] = "d" THEN v[i] \in Digits ELSE v[i] = pat[i]

\* TimestampNoTz.check: _timestamp_regex only
TimestampNoTz_check(v) == MatchesPattern(v, TimestampPattern)

\* TimestampWithTz.check: the timestamp followed by Z or by an optional
\* space and [-+]\d\d:\d\d
TimestampWithTz_check(v) ==
    /\ Len(v) > 19
    /\ MatchesPattern(SubSeq(v, 1, 19), TimestampPattern)
    /\ LET rest == SubSeq(v, 20, Len(v))
           off  == IF rest[1] = " " THEN Tail(rest) ELSE rest
       IN  \/ rest = <<"Z">>
           \/ /\ Len(off) = 6 /\ off[1] \in {"-", "+"}
              /\ MatchesPattern(Tail(off), <<"d","d",":","d","d">>)

OnlyNan_check(v) == IsNan(v)

\* BaseType.check, dispatched on the class of the type object
check(t, v) ==
    CASE t.kind = "NonNegInt"       -> NonNegInt_check(v)
      [] t.kind = "BigInt"          -> BigInt_check(v)
      [] t.kind = "Num"             -> Num_check(t, v)
      [] t.kind = "TimestampNoTz"   -> TimestampNoTz_check(v)
      [] t.kind = "TimestampWithTz" -> TimestampWithTz_check(v)
      [] t.kind = "OnlyNan"         -> OnlyNan_check(v)
      [] t.kind = "Ignore"          -> TRUE

----------------------------------------------------------------------------
(* datetime arithmetic of the standard library, on the proleptic Gregorian
   calendar.  A datetime is a record of its fields. *)

datetime(y, mo, d, h, mi, s) ==
    [year |-> y, month |-> mo, day |-> d, hour |-> h, minute |-> mi,
     second |-> s, microsecond |-> 0]

IsLeap(y) == y % 4 = 0 /\ (y % 100 # 0 \/ y % 400 = 0)

DaysInMonth(y, m) ==
    IF m = 2 THEN (IF IsLeap(y) THEN 29 ELSE 28)
    ELSE IF m \in {4, 6, 9, 11} THEN 30 ELSE 31

\* days since 1970-01-01 of day doy (from 0, counted from 1 March) of the
\* year yy that starts on 1 March
DaysOfYear(yy, doy) ==
    (yy \div 400) * 146097
    + (yy % 400) * 365 + (yy % 400) \div 4 - (yy % 400) \div 100 + doy - 719468

\* days since 1970-01-01 of a date
DaysFromCivil(y, m, d) ==
    DaysOfYear(IF m <= 2 THEN y - 1 ELSE y,
               (153 * (IF m > 2 THEN m - 3 ELSE m + 9) + 2) \div 5 + d - 1)

\* the date <<y, m, d>> of day doy of the year y that starts on 1 March,
\* mp being its month counted from March
CivilOfMonth(y, doy, mp) ==
    << IF mp < 10 THEN y ELSE y + 1,
       IF mp < 10 THEN mp + 3 ELSE mp - 9,
       doy - (153 * mp + 2) \div 5 + 1 >>

CivilOfDoy(y, doy) == CivilOfMonth(y, doy, (5 * doy + 2) \div 153)

CivilOfYoe(era, doe, yoe) ==
    CivilOfDoy(yoe + era * 400, doe - (365 * yoe + yoe \div 4 - yoe \div 100))

CivilOfDoe(era, doe) ==
    CivilOfYoe(era, doe, (doe - doe \div 1460 + doe \div 36524 - doe \div 146096) \div 365)

\* the date of a number of days since 1970-01-01, as <<y, m, d>>
CivilFromDays(z) == CivilOfDoe((z + 719468) \div 146097, (z + 719468) % 146097)

SecondOfDay(dt) == dt.hour * 3600 + dt.minute * 60 + dt.second

\* the datetime of date ymd and second s of the day
AtDate(dt, ymd, s) ==
    [dt EXCEPT !.year = ymd[1], !.month = ymd[2], !.day = ymd[3],
               !.hour = s \div 3600, !.minute = (s % 3600) \div 60, !.second = s % 60]

\* dt + timedelta(days, seconds)
AddDelta(dt, days, seconds) ==
    AtDate(dt,
           CivilFromDays(DaysFromCivil(dt.year, dt.month, dt.day) + days
                         + (SecondOfDay(dt) + seconds) \div 86400),
           (SecondOfDay(dt) + seconds) % 86400)

\* the order of naive datetimes
DtKey(dt) == << DaysFromCivil(dt.year, dt.month, dt.day), SecondOfDay(dt), dt.microsecond >>
KeyLess(ka, kb) ==
    \/ ka[1] < kb[1]
    \/ ka[1] = kb[1] /\ ka[2] < kb[2]
    \/ ka[1] = kb[1] /\ ka[2] = kb[2] /\ ka[3] < kb[3]
DtLess(a, b) == KeyLess(DtKey(a), DtKey(b))

\* int() of a string of digits
RECURSIVE IntOf(_)
IntOf(v) == IF v = <<>> THEN 0
            ELSE 10 * IntOf(SubSeq(v, 1, Len(v) - 1)) + DigitVal(v[Len(v)])

\* datetime.fromisoformat on a value that matched the timestamp pattern:
\* the fields, and whether they are in range (otherwise ValueError)
IsoFields(v) ==
    datetime(IntOf(SubSeq(v, 1, 4)), IntOf(SubSeq(v, 6, 7)), IntOf(SubSeq(v, 9, 10)),
             IntOf(SubSeq(v, 12, 13)), IntOf(SubSeq(v, 15, 16)), IntOf(SubSeq(v, 18, 19)))

IsoValid(dt) ==
    /\ dt.year >= 1
    /\ dt.month \in 1..12
    /\ dt.day >= 1 /\ dt.day <= DaysInMonth(dt.year, dt.month)
    /\ dt.hour <= 23 /\ dt.minute <= 59 /\ dt.second <= 59

\* the UTC offset in minutes written at the end of a TimestampWithTz value
IsoOffset(v) ==
    IF v[Len(v)] = "Z" THEN 0
    ELSE LET n    == Len(v)
             mins == IntOf(SubSeq(v, n - 4, n - 3)) * 60 + IntOf(SubSeq(v, n - 1, n))
         IN  IF v[n - 5] = "-" THEN 0 - mins ELSE mins

\* the result of a conversion: a value or an exception
Ok(x) == [ok |-> TRUE, val |-> x, err |-> NoneS]
Fail(e) == [ok |-> FALSE, val |-> datetime(1, 1, 1, 0, 0, 0), err |-> e]

\* TimestampNoTz.to_py: TypeError unless check(value), then fromisoformat
TimestampNoTz_to_py(v) ==
    IF ~ TimestampNoTz_check(v) THEN Fail("TypeError")
    ELSE IF ~ IsoValid(IsoFields(v)) THEN Fail("ValueError")
    ELSE Ok(IsoFields(v))

\* astimezone(timezone.utc) of a conversion result r read at the UTC
\* offset of tz minutes
AsUtc(r, tz) == IF r.ok THEN Ok(AddDelta(r.val, 0, 0 - tz * 60)) ELSE r

\* TimestampNoTz.to_py_tz(value, tz) followed by astimezone(timezone.utc);
\* tz is a fixed offset in minutes
TimestampNoTz_to_utc(v, tz) == AsUtc(TimestampNoTz_to_py(v), tz)

\* TimestampWithTz.to_py followed by astimezone(timezone.utc); fromisoformat
\* takes only UTC offsets strictly between -24 and +24 hours
TimestampWithTz_to_utc(v) ==
    IF ~ TimestampWithTz_check(v) THEN Fail("TypeError")
    ELSE IF ~ IsoValid(IsoFields(SubSeq(v, 1, 19))) THEN Fail("ValueError")
    ELSE IF IsoOffset(v) >= 1440 \/ IsoOffset(v) <= -1440 THEN Fail("ValueError")
    ELSE Ok(AddDelta(IsoFields(SubSeq(v, 1, 19)), 0, 0 - IsoOffset(v) * 60))

Pad2(n) == << DigitChar(n \div 10), DigitChar(n % 10) >>
Pad4(n) == Pad2(n \div 100) \o Pad2(n % 100)

\* the canonical UTC output format YYYY-MM-DD HH:MM:SSZ
FormatUtc(dt) ==
    Pad4(dt.year) \o <<"-">> \o Pad2(dt.month) \o <<"-">> \o Pad2(dt.day) \o <<" ">>
    \o Pad2(dt.hour) \o <<":">> \o Pad2(dt.minute) \o <<":">> \o Pad2(dt.second) \o <<"Z">>

----------------------------------------------------------------------------
(* Record engine: loggerdata/importdefs.py.  A Record object is an entry of
   recs; its id is its position. *)

Record(origrow, tblmd, variant, filenames, srcline, filetype) ==
    [origrow |-> origrow, tblmd |-> tblmd, variant |-> variant,
     filenames |-> filenames, srcline |-> srcline, filetype |-> filetype,
     fullrow |-> <<"unset">>]

\* the MdTable a Record refers to
TableOf(rec) == mds[rec.tblmd[1]].tables[rec.tblmd[2]]

\* Record.fullrow, lines 79-80: newrow[new_i] = origrow[old_i] in order
RECURSIVE Scatter(_, _, _, _)
Scatter(newrow, origrow, variant, i) ==
    IF i > Len(variant) THEN newrow
    ELSE Scatter([newrow EXCEPT ![variant[i] + 1] = origrow[i]], origrow, variant, i + 1)

RowResult(out, err, row) == [out |-> out, err |-> err, row |-> row]

\* fullrow that starts from a row of empty strings
fullrow_EmptyString(rec) ==
    IF Len(rec.origrow) # Len(rec.variant)
    THEN RowResult("raise", "RecordError", <<>>)
    ELSE RowResult("return", NoneS,
            Scatter([ j \in 1..Len(TableOf(rec).columns) |-> <<>> ],
                    rec.origrow, rec.variant, 1))

\* Record.fullrow (a cached property): RecordError or the logical row
fullrow(rec) ==
    IF Len(rec.origrow) # Len(rec.variant)
    THEN RowResult("raise", "RecordError", <<>>)
    ELSE RowResult("return", NoneS,
            Scatter([ j \in 1..Len(TableOf(rec).columns) |-> None ],
                    rec.origrow, rec.variant, 1))

\* the attributes of an MdColumn object (fields and properties)
MdColumnAttributes ==
    {"name", "unit", "prc", "type", "lodt", "var", "desc", "plotgrp", "sens", "hdr", "sql"}

\* the outcome of a Record method: what it returns or raises, and the
\* Record objects afterwards
MethodResult(out, err, ret, col, val, heap) ==
    [out |-> out, err |-> err, ret |-> ret, col |-> col, val |-> val, recs |-> heap]

\* the column of the table that position i of the raw row is mapped to
ColumnAt(rec, i) == TableOf(rec).columns[rec.variant[i] + 1]

Min(a, b) == IF a < b THEN a ELSE b

\* the positions zip(origrow, variant) visits before one of the two ends
Zipped(rec) == 1..Min(Len(rec.origrow), Len(rec.variant))

\* the least of a set of positions, 0 for the empty set
First(bad) == IF bad = {} THEN 0 ELSE CHOOSE i \in bad : \A j \in bad : i <= j

\* the first physical position whose typed column rejects its value; 0 if
\* there is none
FirstTypeFailure(rec) ==
    First({ i \in Zipped(rec) :
              /\ ColumnAt(rec, i).type # NoType
              /\ ~ check(ColumnAt(rec, i).type, rec.origrow[i]) })

\* the exception of importdefs.py:101: building its message reads col.tup,
\* which fails with AttributeError when MdColumn has no such attribute
TypecheckError(col, val) ==
    IF "tup" \in MdColumnAttributes
    THEN [err |-> "TypeError", col |-> hdr(col), val |-> val]
    ELSE [err |-> "AttributeError", col |-> <<>>, val |-> None]

\* typecheck, the failed check at position f
Rejection(rec, f) ==
    MethodResult("raise", TypecheckError(ColumnAt(rec, f), rec.origrow[f]).err, 0,
                 TypecheckError(ColumnAt(rec, f), rec.origrow[f]).col,
                 TypecheckError(ColumnAt(rec, f), rec.origrow[f]).val, recs)

\* typecheck that hands back a copy of the record
typecheck_Copy(self) ==
    LET rec == recs[self]
    IN  IF FirstTypeFailure(rec) # 0
        THEN Rejection(rec, FirstTypeFailure(rec))
        ELSE IF Len(rec.origrow) # Len(rec.variant)
        THEN MethodResult("raise", "ValueError", 0, <<>>, None, recs)
        ELSE MethodResult("return", NoneS, Len(recs) + 1, <<>>, None, Append(recs, rec))

\* Record.typecheck: zip(origrow, variant, strict=True) checks the common
\* positions in order and raises ValueError at the end of the shorter one
typecheck(self) ==
    LET rec == recs[self]
    IN  IF FirstTypeFailure(rec) # 0
        THEN Rejection(rec, FirstTypeFailure(rec))
        ELSE IF Len(rec.origrow) # Len(rec.variant)
        THEN MethodResult("raise", "ValueError", 0, <<>>, None, recs)
        ELSE MethodResult("return", NoneS, self, <<>>, None, recs)

\* the canonical UTC string of a conversion result r of the value v
Canonical(r, v) ==
    IF r.ok THEN [ok |-> TRUE, val |-> FormatUtc(r.val), err |-> NoneS]
    ELSE [ok |-> FALSE, val |-> v, err |-> r.err]

\* Record.tzconv, one value: a TimestampNoTz value is read in the timezone
\* of the table's Metadata, a TimestampWithTz value with its own offset, and
\* both are written as canonical UTC; other values are kept
tzconv_value(col, tz, v) ==
    CASE col.type.kind = "TimestampNoTz"   -> Canonical(TimestampNoTz_to_utc(v, tz), v)
      [] col.type.kind = "TimestampWithTz" -> Canonical(TimestampWithTz_to_utc(v), v)
      [] OTHER -> [ok |-> TRUE, val |-> v, err |-> NoneS]

\* Record.tzconv, the converted values of positions i..n of the raw row
RECURSIVE tzconv_row(_, _, _, _)
tzconv_row(rec, tz, i, n) ==
    IF i > n THEN <<>>
    ELSE << tzconv_value(ColumnAt(rec, i), tz, rec.origrow[i]).val >>
         \o tzconv_row(rec, tz, i + 1, n)

\* Record.tzconv, the first position whose value cannot be converted; 0 if
\* there is none
tzconv_failure(rec, tz) ==
    First({ i \in Zipped(rec) : ~ tzconv_value(ColumnAt(rec, i), tz, rec.origrow[i]).ok })

\* Record.tzconv: a new Record with the timestamps of the raw row converted
tzconv(self) ==
    LET rec == recs[self]
        tz  == mds[rec.tblmd[1]].tz
    IN  IF tzconv_failure(rec, tz) # 0
        THEN MethodResult("raise",
                 tzconv_value(ColumnAt(rec, tzconv_failure(rec, tz)), tz,
                              rec.origrow[tzconv_failure(rec, tz)]).err,
                 0, <<>>, None, recs)
        ELSE IF Len(rec.origrow) # Len(rec.variant)
        THEN MethodResult("raise", "ValueError", 0, <<>>, None, recs)
        ELSE MethodResult("return", NoneS, Len(recs) + 1, <<>>, None,
                 Append(recs, [rec EXCEPT !.origrow = tzconv_row(rec, tz, 1, Len(rec.origrow)),
                                          !.fullrow = <<"unset">>]))

----------------------------------------------------------------------------
(* Inputs of the Record engine *)

V_ts     == <<"2","0","2","3","-","0","1","-","0","2"," ","0","3",":","0","4",":","0","5">>
V_feb30  == <<"2","0","2","3","-","0","2","-","3","0"," ","0","3",":","0","4",":","0","5">>
V_tstz   == <<"2","0","2","3","-","0","1","-","0","2"," ","0","3",":","0","4",":","5","6","+","0","4",":","3","0">>
V_int    == <<"4","2">>
V_nan    == <<"N","a","N">>
V_empty  == <<>>

RowValues == {V_ts, V_feb30, V_tstz, V_int, V_nan, V_empty}

InitRecord ==
    /\ mds \in { f \in LoadedMetadatas :
                   /\ f[1].toa5_env_match.program_sig = NoneS
                   /\ f[2].toa5_env_match.station_name = "B" }
    /\ ntamper = 0
    /\ hm = NoCall
    /\ recs = <<>>
    /\ rop = IdleRop
    /\ ts = IdleTs
    /\ inf = IdleInf /\ imp = IdleImp /\ call = IdleCall
    /\ objs = IdleObjs /\ coll = IdleColl

\* Record(origrow=..., tblmd=..., variant=..., ...), as read_toa5_records
\* (dataimport.py:80) or a caller builds it
NewRecord ==
    /\ recs = <<>>
    /\ \E origrow \in SeqsUpTo(RowValues, MaxRow), id \in MdIds :
        \E k \in DOMAIN mds[id].tables["Hourly"].variants :
            /\ recs' = << Record(origrow, <<id, "Hourly">>,
                                 mds[id].tables["Hourly"].variants[k],
                                 <<"a.dat">>, 5, "TOA5") >>
            /\ rop' = IdleRop
            /\ UNCHANGED <<mds, ntamper, hm, ts, inf, imp, call, objs, coll>>

\* rec.fullrow, r being what the property computes: the row is cached
FullrowResult(self, r) ==
    /\ recs' = IF r.out = "return" THEN [recs EXCEPT ![self].fullrow = r.row] ELSE recs
    /\ rop' = [IdleRop EXCEPT !.op = "fullrow", !.self = self, !.out = r.out,
                              !.err = r.err, !.fullrow = r.row]

\* rec.fullrow
Fullrow ==
    \E self \in DOMAIN recs :
        /\ recs[self].fullrow = <<"unset">>
        /\ FullrowResult(self, fullrow(recs[self]))
        /\ UNCHANGED <<mds, ntamper, hm, ts, inf, imp, call, objs, coll>>

\* the call of a method op of Record self, r being its outcome
MethodCall(op, self, r) ==
    /\ Len(r.recs) <= MaxRecs
    /\ recs' = r.recs
    /\ rop' = [IdleRop EXCEPT !.op = op, !.self = self, !.out = r.out, !.err = r.err,
                              !.ret = r.ret, !.col = r.col, !.val = r.val]

\* rec.typecheck()
Typecheck ==
    \E self \in DOMAIN recs :
        /\ MethodCall("typecheck", self, typecheck(self))
        /\ UNCHANGED <<mds, ntamper, hm, ts, inf, imp, call, objs, coll>>

\* rec.tzconv()
Tzconv ==
    \E self \in DOMAIN recs :
        /\ MethodCall("tzconv", self, tzconv(self))
        /\ UNCHANGED <<mds, ntamper, hm, ts, inf, imp, call, objs, coll>>

NextRecord == NewRecord \/ Fullrow \/ Typecheck \/ Tzconv

SpecRecord == InitRecord /\ [][NextRecord]_vars

----------------------------------------------------------------------------
(* Sampling intervals: loggerdata/metadata.py, class Interval *)

\* (qualitycheck.py imports this enum under the name DataInterval)
Intervals == {"UNDEF", "MIN15", "MIN30", "HOUR1", "DAY1", "WEEK1", "MONTH1"}

\* a replace that moves to the last second of the minute
AtTime_LastSecond(dt, h, mi) ==
    [dt EXCEPT !.hour = h, !.minute = mi, !.second = 59, !.microsecond = 0]

\* stamp.replace(...) of the time fields
AtTime(dt, h, mi) ==
    [dt EXCEPT !.hour = h, !.minute = mi, !.second = 0, !.microsecond = 0]

\* date.weekday(): Monday is 0; 1970-01-01 was a Thursday
Weekday(dt) == (DaysFromCivil(dt.year, dt.month, dt.day) + 3) % 7

\* Interval.floor: the start of the interval a timestamp lies in (ValueError
\* for UNDEF, which the callers below test for first)
Interval_floor(interval, stamp) ==
    CASE interval = "MIN15" ->
            AtTime(stamp, stamp.hour,
                   IF stamp.minute >= 45 THEN 45
                   ELSE IF stamp.minute >= 30 THEN 30
                   ELSE IF stamp.minute >= 15 THEN 15 ELSE 0)
      [] interval = "MIN30" ->
            AtTime(stamp, stamp.hour, IF stamp.minute >= 30 THEN 30 ELSE 0)
      [] interval = "HOUR1" -> AtTime(stamp, stamp.hour, 0)
      [] interval = "DAY1"  -> AtTime(stamp, 0, 0)
      [] interval = "WEEK1" ->
            \* fromisocalendar(isoyear, isoweek, 1) is the Monday of the week
            AtTime(AtDate(stamp, CivilFromDays(DaysFromCivil(stamp.year, stamp.month, stamp.day)
                                               - Weekday(stamp)), 0), 0, 0)
      [] interval = "MONTH1" -> AtTime([stamp EXCEPT !.day = 1], 0, 0)

\* stamp + Interval.delta: a timedelta, or relativedelta(months=1), which
\* clips the day to the length of the next month
PlusDelta(interval, stamp) ==
    CASE interval = "MIN15" -> AddDelta(stamp, 0, 15 * 60)
      [] interval = "MIN30" -> AddDelta(stamp, 0, 30 * 60)
      [] interval = "HOUR1" -> AddDelta(stamp, 0, 3600)
      [] interval = "DAY1"  -> AddDelta(stamp, 1, 0)
      [] interval = "WEEK1" -> AddDelta(stamp, 7, 0)
      [] interval = "MONTH1" ->
            LET y == IF stamp.month = 12 THEN stamp.year + 1 ELSE stamp.year
                m == IF stamp.month = 12 THEN 1 ELSE stamp.month + 1
            IN  [stamp EXCEPT !.year = y, !.month = m,
                              !.day = Min(stamp.day, DaysInMonth(y, m))]

----------------------------------------------------------------------------
(* Quality checker: loggerdata/qualitycheck.py *)

\* check_timeseq_strict, lines 65-70: y is on the grid and exp_y was expected
\* (a gap taken for an expected step)
timeseq_step_NoGap(y, exp_y) ==
    IF y = exp_y \/ DtLess(exp_y, y) THEN "GOOD" ELSE "BAD"

\* check_timeseq_strict, lines 65-70: y is on the grid and exp_y was expected
timeseq_step(y, exp_y) ==
    IF y = exp_y THEN "GOOD"
    ELSE IF DtLess(exp_y, y) THEN "UNUSUAL"
    ELSE "BAD"

\* check_timeseq_strict, the body of its loop for the pair number i (from 0)
\* of pairwise(seq): what it yields
timeseq_pair(interval, i, x, y) ==
    (IF i = 0
     THEN << IF x = Interval_floor(interval, x) THEN "GOOD" ELSE "BAD" >>
     ELSE <<>>)
    \o << IF y = Interval_floor(interval, y)
          THEN timeseq_step(y, PlusDelta(interval, Interval_floor(interval, x)))
          ELSE "BAD" >>

\* the timestamps of an input sequence: Sunday 2022-05-22 around noon, the
\* Monday after it and the first of the next month
TimePoints ==
    { datetime(2022, 5, 22, 12, 0, 0),  datetime(2022, 5, 22, 12, 15, 0),
      datetime(2022, 5, 22, 12, 45, 0), datetime(2022, 5, 22, 13, 0, 0),
      datetime(2022, 5, 22, 12, 7, 43), datetime(2022, 5, 23, 0, 0, 0),
      datetime(2022, 6, 1, 0, 0, 0) }

InitTimeseq ==
    /\ mds \in { f \in LoadedMetadatas :
                   /\ f[1].toa5_env_match.program_sig = NoneS
                   /\ f[2].toa5_env_match.station_name = "B" }
    /\ ntamper = 0
    /\ hm = NoCall
    /\ recs = IdleRecs
    /\ rop = IdleRop
    /\ ts = IdleTs
    /\ inf = IdleInf /\ imp = IdleImp /\ call = IdleCall
    /\ objs = IdleObjs /\ coll = IdleColl

\* check_timeseq_strict(seq, interval=...): the generator is created
TsCall ==
    /\ ts.pc = "idle"
    /\ \E interval \in Intervals :
          ts' = [pc |-> "run", interval |-> interval, seq |-> <<>>, i |-> 0, out |-> <<>>]
    /\ UNCHANGED <<mds, ntamper, hm, recs, rop, inf, imp, call, objs, coll>>

\* the input yields its next timestamp: from the second on, pairwise(seq)
\* has a pair and the loop body runs for it
TsNext ==
    /\ ts.pc = "run"
    /\ Len(ts.seq) < MaxSeq
    /\ \E y \in TimePoints :
          IF ts.seq = <<>>
          THEN ts' = [ts EXCEPT !.seq = <<y>>]
          ELSE IF ts.interval = "UNDEF"
          THEN ts' = [ts EXCEPT !.seq = Append(@, y), !.pc = "error"]
          ELSE ts' = [ts EXCEPT !.seq = Append(@, y), !.i = @ + 1,
                                !.out = @ \o timeseq_pair(ts.interval, ts.i,
                                                          ts.seq[Len(ts.seq)], y)]
    /\ UNCHANGED <<mds, ntamper, hm, recs, rop, inf, imp, call, objs, coll>>

\* the input is exhausted: the generator returns
TsReturn ==
    /\ ts.pc = "run"
    /\ ts' = [ts EXCEPT !.pc = "done"]
    /\ UNCHANGED <<mds, ntamper, hm, recs, rop, inf, imp, call, objs, coll>>

NextTimeseq == TsCall \/ TsNext \/ TsReturn

SpecTimeseq == InitTimeseq /\ [][NextTimeseq]_vars

----------------------------------------------------------------------------
(* Type inference: datatypes.py, class TypeInferrer.  The hypotheses are
   kept as booleans: TRUE for the type object, FALSE for None. *)

\* the second argument instead of the larger one
Max_Second(a, b) == b
\* max(a, b)
Max(a, b) == IF a > b THEN a ELSE b

\* sum(c.isdigit() for c in string[from - 1:])
CountDigits(string, from) ==
    Cardinality({ i \in from..Len(string) : string[i] \in Digits })

\* TypeInferrer.__init__; sent lists the arguments of the send calls so far
TypeInferrer(do_raise) ==
    [pc |-> "open", do_raise |-> do_raise, failed |-> FALSE, is_num |-> TRUE,
     num_prec |-> -1, num_scale |-> -1, nonnegint |-> TRUE, bigint |-> TRUE,
     timestamp |-> TRUE, timestamptz |-> TRUE, onlynan |-> TRUE,
     sent |-> <<>>, out |-> Ok(NoType)]

\* the second half of send, given the hypotheses that survive string
send_Track(self, string, nonnegint, bigint, onlynan, timestamp, timestamptz, is_num) ==
    [self EXCEPT
       !.nonnegint = nonnegint, !.bigint = bigint, !.onlynan = onlynan,
       !.timestamp = timestamp, !.timestamptz = timestamptz, !.is_num = is_num,
       !.num_prec = IF is_num THEN Max(@, CountDigits(string, 1)) ELSE @,
       !.num_scale = IF is_num /\ FirstDot(string) > 0
                     THEN Max(@, CountDigits(string, FirstDot(string))) ELSE @,
       !.failed = ~ (is_num \/ nonnegint \/ bigint \/ timestamp \/ timestamptz \/ onlynan),
       !.pc = IF ~ (is_num \/ nonnegint \/ bigint \/ timestamp \/ timestamptz \/ onlynan)
                 /\ self.do_raise THEN "raised" ELSE @,
       !.out = IF ~ (is_num \/ nonnegint \/ bigint \/ timestamp \/ timestamptz \/ onlynan)
                  /\ self.do_raise THEN Fail("TypeError") ELSE @]

\* TypeInferrer.send
send(self, string) ==
    IF self.failed THEN self
    ELSE send_Track(self, string,
            self.nonnegint /\ NonNegInt_check(string),
            self.bigint /\ BigInt_check(string),
            self.onlynan /\ OnlyNan_check(string),
            self.timestamp /\ TimestampNoTz_check(string),
            self.timestamptz /\ TimestampWithTz_check(string),
            self.is_num /\ Num_check(Num(NoneI, NoneI), string))

\* TypeInferrer.finish with its assertions
finish(self) ==
    IF self.failed THEN
        IF ~ self.do_raise THEN Ok(NoType) ELSE Fail("AssertionError")
    ELSE IF self.onlynan THEN
        IF /\ ~ self.timestamp /\ ~ self.timestamptz /\ self.nonnegint /\ self.bigint
           /\ self.is_num /\ self.num_prec = 0 /\ self.num_scale = -1
        THEN Ok(Type("OnlyNan")) ELSE Fail("AssertionError")
    ELSE IF self.nonnegint THEN
        IF /\ ~ self.timestamp /\ ~ self.timestamptz /\ self.bigint
           /\ self.is_num /\ 0 < self.num_prec /\ self.num_prec < 11 /\ self.num_scale < 1
        THEN Ok(Type("NonNegInt")) ELSE Fail("AssertionError")
    ELSE IF self.bigint THEN
        IF /\ ~ self.timestamp /\ ~ self.timestamptz /\ ~ self.nonnegint
           /\ self.is_num /\ 0 < self.num_prec /\ self.num_prec < 20 /\ self.num_scale < 1
        THEN Ok(Type("BigInt")) ELSE Fail("AssertionError")
    ELSE IF self.timestamp THEN
        IF ~ self.timestamptz /\ ~ self.nonnegint /\ ~ self.is_num /\ ~ self.bigint
        THEN Ok(Type("TimestampNoTz")) ELSE Fail("AssertionError")
    ELSE IF self.timestamptz THEN
        IF ~ self.timestamp /\ ~ self.nonnegint /\ ~ self.is_num /\ ~ self.bigint
        THEN Ok(Type("TimestampWithTz")) ELSE Fail("AssertionError")
    ELSE IF self.is_num THEN
        IF /\ ~ self.timestamp /\ ~ self.timestamptz /\ ~ self.nonnegint /\ ~ self.bigint
           /\ self.num_prec > 0
        THEN Ok(Num(self.num_prec,
                          IF self.num_scale < 1 THEN NoneI ELSE self.num_scale))
        ELSE Fail("AssertionError")
    ELSE Fail("AssertionError")

\* TypeInferrer.run from item i on: send for every item, until one raises,
\* then finish
RECURSIVE run(_, _, _)
run(self, strings, i) ==
    IF self.pc = "raised" THEN self.out
    ELSE IF i > Len(strings) THEN finish(self)
    ELSE run(send(self, strings[i]), strings, i + 1)

\* the values of test_datatypes_infer, one of each shape
InferValues ==
    { <<"0">>, <<"2","3">>, <<"N","a","N">>, <<"-","3">>,
      <<"2","1","4","7","4","8","3","6","4","8">>, <<"a","b","c">>,
      <<"1",".">>, <<"1",".","6","8">>, <<"1","2",".","3","4">>, V_ts, V_tstz }

\* nothing called yet, under the loaded metadata
InitIdle ==
    /\ mds \in { f \in LoadedMetadatas :
                   /\ f[1].toa5_env_match.program_sig = NoneS
                   /\ f[2].toa5_env_match.station_name = "B" }
    /\ ntamper = 0
    /\ hm = NoCall
    /\ recs = IdleRecs /\ rop = IdleRop /\ ts = IdleTs
    /\ inf = IdleInf /\ imp = IdleImp /\ call = IdleCall
    /\ objs = IdleObjs /\ coll = IdleColl

\* inf = TypeInferrer(do_raise=...), replacing a finished inferrer
NewInferrer ==
    /\ inf.pc \in {"none", "finished", "raised", "finished_raised"}
    /\ \E do_raise \in BOOLEAN : inf' = TypeInferrer(do_raise)
    /\ UNCHANGED <<mds, ntamper, hm, recs, rop, ts, imp, call, objs, coll>>

\* inf.send(string)
Send ==
    /\ inf.pc = "open"
    /\ Len(inf.sent) < MaxSend
    /\ \E string \in InferValues :
          inf' = [send(inf, string) EXCEPT !.sent = Append(@, string)]
    /\ UNCHANGED <<mds, ntamper, hm, recs, rop, ts, imp, call, objs, coll>>

\* inf.finish(), also by a caller that caught the TypeError of send
Finish ==
    /\ inf.pc \in {"open", "raised"}
    /\ inf' = [inf EXCEPT !.pc = IF @ = "open" THEN "finished" ELSE "finished_raised",
                          !.out = finish(inf)]
    /\ UNCHANGED <<mds, ntamper, hm, recs, rop, ts, imp, call, objs, coll>>

NextInfer == NewInferrer \/ Send \/ Finish

SpecInfer == InitIdle /\ [][NextInfer]_vars

----------------------------------------------------------------------------
(* Scalar types, continued: conversions, from_string and repr of
   datatypes.py *)

\* to_py of a type object: the name of the exception it raises, NoneS when
\* it returns a value.  NonNegInt, BigInt, Num and OnlyNan raise TypeError
\* unless check(value) and then convert (int, Decimal, None), which cannot
\* fail on a value check accepted; the timestamp types go on to
\* datetime.fromisoformat; Ignore inherits BaseType.to_py.
to_py(t, v) ==
    CASE t.kind = "Ignore"          -> "NotImplementedError"
      [] t.kind = "TimestampNoTz"   -> TimestampNoTz_to_py(v).err
      [] t.kind = "TimestampWithTz" -> TimestampWithTz_to_utc(v).err
      [] OTHER                      -> IF check(t, v) THEN NoneS ELSE "TypeError"

\* to_np of a type object, likewise: numpy.uint32, numpy.int64,
\* numpy.float64 and numpy.nan on an accepted value; numpy.datetime64 on
\* the value itself (TimestampNoTz) or on the result of fromisoformat and
\* astimezone (TimestampWithTz); Ignore inherits BaseType.to_np.
to_np(t, v) ==
    CASE t.kind = "Ignore"          -> "NotImplementedError"
      [] t.kind = "TimestampNoTz"   ->
            IF ~ TimestampNoTz_check(v) THEN "TypeError"
            ELSE IF ~ IsoValid(IsoFields(v)) THEN "ValueError" ELSE NoneS
      [] t.kind = "TimestampWithTz" -> TimestampWithTz_to_utc(v).err
      [] OTHER                      -> IF check(t, v) THEN NoneS ELSE "TypeError"

\* the names from_string compares with, and type(self).__name__
TypeNames ==
    [ NonNegInt |-> <<"N","o","n","N","e","g","I","n","t">>, BigInt |-> <<"B","i","g","I","n","t">>,
      TimestampNoTz |-> <<"T","i","m","e","s","t","a","m","p","N","o","T","z">>,
      TimestampWithTz |-> <<"T","i","m","e","s","t","a","m","p","W","i","t","h","T","z">>,
      OnlyNan |-> <<"O","n","l","y","N","a","n">>, Ignore |-> <<"I","g","n","o","r","e">> ]

\* Num.__init__: the type object, or the exception
Num_init(precision, scale) ==
    IF precision = NoneI THEN
        IF scale # NoneI THEN Fail("TypeError") ELSE Ok(Num(NoneI, NoneI))
    ELSE IF ~ (1 <= precision /\ precision <= 1000) THEN Fail("ValueError")
    ELSE IF scale # NoneI /\ ~ (0 <= scale /\ scale <= precision) THEN Fail("ValueError")
    ELSE Ok(Num(precision, scale))

\* the branch of from_string for _parseNum_regex, Num \( (\d+) (?:,(\d+))? \),
\* on the text between "Num(" and ")": the groups go through int()
from_string_Num(inner, comma) ==
    IF comma = 0 THEN
        IF inner # <<>> /\ AllDigits(inner)
        THEN Num_init(IntOf(inner), NoneI) ELSE Fail("ValueError")
    ELSE IF /\ comma > 1 /\ comma < Len(inner)
            /\ AllDigits(SubSeq(inner, 1, comma - 1))
            /\ AllDigits(SubSeq(inner, comma + 1, Len(inner)))
    THEN Num_init(IntOf(SubSeq(inner, 1, comma - 1)),
                  IntOf(SubSeq(inner, comma + 1, Len(inner))))
    ELSE Fail("ValueError")

\* from_string: the type object, or the exception
from_string(s) ==
    IF \E k \in DOMAIN TypeNames : TypeNames[k] = s
    THEN Ok(Type(CHOOSE k \in DOMAIN TypeNames : TypeNames[k] = s))
    ELSE IF s = <<"N","u","m">> THEN Num_init(NoneI, NoneI)
    ELSE IF Len(s) >= 5 /\ SubSeq(s, 1, 4) = <<"N","u","m","(">> /\ s[Len(s)] = ")"
    THEN from_string_Num(SubSeq(s, 5, Len(s) - 1),
             First({ i \in 1..(Len(s) - 5) : s[i + 4] = "," }))
    ELSE Fail("ValueError")

\* str() of a non-negative integer
RECURSIVE Str(_)
Str(n) == IF n < 10 THEN << DigitChar(n) >> ELSE Str(n \div 10) \o << DigitChar(n % 10) >>

\* BaseType.__repr__ and Num.__repr__
repr(t) ==
    IF t.kind # "Num" THEN TypeNames[t.kind]
    ELSE IF t.precision = NoneI /\ t.scale = NoneI THEN <<"N","u","m">>
    ELSE IF t.scale = NoneI THEN <<"N","u","m","(">> \o Str(t.precision) \o <<")">>
    ELSE <<"N","u","m","(">> \o Str(t.precision) \o <<",">> \o Str(t.scale) \o <<")">>

\* type objects: one of every class, Num in its three forms
ScalarTypes ==
    { Type("NonNegInt"), Type("BigInt"), Num(NoneI, NoneI), Num(3, NoneI), Num(4, 2),
      Type("TimestampNoTz"), Type("TimestampWithTz"), Type("OnlyNan"), Type("Ignore") }

\* values for check, to_py and to_np: those of type inference, NaN in other
\* letter cases, a date and a UTC offset that do not exist, an empty string
ScalarValues ==
    InferValues \cup
    { <<"n","a","n">>, <<"n","A","N">>, V_feb30, V_empty,
      <<"2","0","1","9","-","0","6","-","1","2"," ","0","1",":","0","0",":","0","0","+","2","5",":","0","0">> }

\* strings for from_string: the type names, Num specifications of the tests,
\* specifications with leading zeros or numbers out of range, other text
TypeStrings ==
    { <<"N","o","n","N","e","g","I","n","t">>,
      <<"B","i","g","I","n","t">>,
      <<"T","i","m","e","s","t","a","m","p","N","o","T","z">>,
      <<"T","i","m","e","s","t","a","m","p","W","i","t","h","T","z">>,
      <<"O","n","l","y","N","a","n">>,
      <<"I","g","n","o","r","e">>,
      <<"N","u","m">>,
      <<"N","u","m","(","1","0",",","8",")">>,
      <<"N","u","m","(","7",")">>,
      <<"N","u","m","(","3",",","3",")">>,
      <<"N","u","m","(","4",",","0",")">>,
      <<"N","u","m","(",")">>,
      <<"N","u","m","("," ","1",","," ","5"," ",")">>,
      <<"N","u","m","(","1",".","1",",","5",")">>,
      <<"N","u","m","(","3",",",")">>,
      <<"N","u","m","(","3",",","2",",",")">>,
      <<"N","u","m","(","0","5",",","3",")">>,
      <<"N","u","m","(","0","0","7",")">>,
      <<"N","u","m","(","0",")">>,
      <<"N","u","m","(","3",",","5",")">>,
      <<"N","u","m","(","1","0","0","1",")">>,
      <<"n","u","m">>,
      <<"F","o","o">>,
      <<>> }

\* t.check(value), t.to_py(value) or t.to_np(value) on a type object
TypeMethod ==
    /\ call.fn = "none"
    /\ \E fn \in {"check", "to_py", "to_np"}, t \in ScalarTypes, value \in ScalarValues :
          call' = [fn |-> fn, self |-> t, value |-> value,
                   out |-> CASE fn = "check" -> IF check(t, value) THEN "True" ELSE "False"
                             [] fn = "to_py" -> to_py(t, value)
                             [] fn = "to_np" -> to_np(t, value)]
    /\ UNCHANGED <<mds, ntamper, hm, recs, rop, ts, inf, imp, objs, coll>>

\* repr(from_string(s)); repr is None when from_string raised
FromString ==
    /\ call.fn = "none"
    /\ \E s \in TypeStrings :
          call' = [fn |-> "from_string", s |-> s, out |-> from_string(s),
                   repr |-> IF from_string(s).ok THEN repr(from_string(s).val) ELSE None]
    /\ UNCHANGED <<mds, ntamper, hm, recs, rop, ts, inf, imp, objs, coll>>


----------------------------------------------------------------------------
(* Importer: read_records and get_record_sources of loggerdata/importer.py
   over read_toa5_records of loggerdata/toa5/dataimport.py.  A file is its
   type as decide_filetype sees it, its environment line, its column
   headers and its data rows; the metadatas are all that are loaded. *)

\* read_toa5_records on a file: what the r-th next() of the generator does.
\* m is what header_match gives for the header of the file; a generator
\* that raised is finished, which read_records sees only for r = 1.
read_toa5_records(file, m, r) ==
    IF m.kind = "raise" THEN RowResult("raise", m.exc, <<>>)
    ELSE IF r > Len(file.rows) THEN RowResult("stop", NoneS, <<>>)
    ELSE IF Len(file.rows[r]) # Len(m.variant) THEN RowResult("raise", "RecordError", <<>>)
    ELSE RowResult("yield", NoneS,
            Record(file.rows[r], m.tblmd, m.variant, file.fns, r + 4, "TOA5"))

\* one next() of the read_records generator g, resumed at row r of file f:
\* read_records takes the files of get_record_sources in turn (a file of
\* unknown type is skipped with a warning, a CSV file raises), peeks at the
\* first record of each (peek on a generator without records raises
\* StopIteration, which leaves a generator as RuntimeError) and yields
\* rec.typecheck() for every record
RECURSIVE read_records(_, _, _)
read_records_Step(g, f, r, res) ==
    IF res.out = "raise" THEN
        IF r = 1 /\ res.err = "NoTableMatch" /\ g.ignore_notablematch
        THEN read_records(g, f + 1, 1)
        ELSE [g EXCEPT !.pc = "raised", !.err = res.err, !.f = f, !.r = r]
    ELSE IF res.out = "stop" THEN
        IF r = 1 THEN [g EXCEPT !.pc = "raised", !.err = "RuntimeError", !.f = f, !.r = r]
        ELSE read_records(g, f + 1, 1)
    ELSE IF FirstTypeFailure(res.row) # 0 THEN
        [g EXCEPT !.pc = "raised", !.f = f, !.r = r,
                  !.err = Rejection(res.row, FirstTypeFailure(res.row)).err]
    ELSE [g EXCEPT !.out = Append(@, res.row), !.f = f, !.r = r + 1]
read_records(g, f, r) ==
    IF f > Len(g.source) THEN [g EXCEPT !.pc = "done", !.f = f, !.r = r]
    ELSE IF g.source[f].ft = "UNKNOWN" THEN read_records(g, f + 1, 1)
    ELSE IF g.source[f].ft = "CSV"
    THEN [g EXCEPT !.pc = "raised", !.err = "NotImplementedError", !.f = f, !.r = r]
    ELSE read_records_Step(g, f, r,
            read_toa5_records(g.source[f],
                header_match(g.source[f].envline, g.source[f].columns, <<1, 2>>), r))

\* files: three that import (two tables, one with NaN and empty values),
\* one of a table that is not configured, one with a short row in the
\* middle, one without rows, one with a value of the wrong type, one that
\* is no TOA5 file, one CSV file
File(ft, fns, envline, columns, rows) ==
    [ft |-> ft, fns |-> fns, envline |-> envline, columns |-> columns, rows |-> rows]
PlainHeader == [ i \in DOMAIN PlainColumns |-> hdr(PlainColumns[i]) ]
Files ==
    { File("TOA5", <<"b.dat">>, EnvironmentLine("B", "X", "1", "Hourly"), PlainHeader,
           << <<V_ts, V_int>> >>),
      File("TOA5", <<"b2.dat">>, EnvironmentLine("B", "X", "1", "Hourly"), PlainHeader,
           << <<V_ts, V_nan>>, <<V_ts, V_int>> >>),
      File("TOA5", <<"a.dat">>, EnvironmentLine("A", "X", "1", "Hourly"),
           << hdr(HourlyColumns[1]), hdr(HourlyColumns[2]) >>,
           << <<V_empty, V_ts>> >>),
      File("TOA5", <<"status.dat">>, EnvironmentLine("B", "X", "1", "Daily"), PlainHeader,
           << <<V_ts, V_int>> >>),
      File("TOA5", <<"short.dat">>, EnvironmentLine("B", "X", "1", "Hourly"), PlainHeader,
           << <<V_ts, V_int>>, <<V_ts>>, <<V_ts, V_nan>> >>),
      File("TOA5", <<"norows.dat">>, EnvironmentLine("B", "X", "1", "Hourly"), PlainHeader,
           << >>),
      File("TOA5", <<"badtype.dat">>, EnvironmentLine("B", "X", "1", "Hourly"), PlainHeader,
           << <<V_int, V_int>> >>),
      File("UNKNOWN", <<"test.txt">>, EnvironmentLine("B", "X", "1", "Hourly"), <<>>, <<>>),
      File("CSV", <<"test.csv">>, EnvironmentLine("B", "X", "1", "Hourly"), <<>>, <<>>) }

\* read_records(source=..., metadatas=..., ignore_notablematch=...): the
\* generator object, not yet started
ReadRecords ==
    /\ imp.pc = "idle"
    /\ \E source \in SeqsUpTo(Files, MaxFiles), ignore_notablematch \in BOOLEAN :
          imp' = [pc |-> "run", source |-> source,
                  ignore_notablematch |-> ignore_notablematch,
                  f |-> 1, r |-> 1, out |-> <<>>, err |-> NoneS]
    /\ UNCHANGED <<mds, ntamper, hm, recs, rop, ts, inf, call, objs, coll>>

\* next() on the generator
ReadNext ==
    /\ imp.pc = "run"
    /\ imp' = read_records(imp, imp.f, imp.r)
    /\ UNCHANGED <<mds, ntamper, hm, recs, rop, ts, inf, call, objs, coll>>

NextImport == ReadRecords \/ ReadNext

SpecImport == InitIdle /\ [][NextImport]_vars

----------------------------------------------------------------------------
(* The loader, continued: the checks of load_logger_metadata and of
   Metadata.validate that concern variant tags and column headers.  The
   documents of the model pass the other checks (schema, identifiers,
   timezone, prikey, sensors, time ranges); js.variants = <<>> stands for a
   document without a variants list. *)

\* the variant tags carried by the columns of the tables of a document
ColumnTags(js) ==
    UNION { { js.tables[tn][i].var : i \in DOMAIN js.tables[tn] } : tn \in DOMAIN js.tables }
    \ {NoneS}

\* no tag is ever unreferenced
unused_variants_None(js) == {}

\* unused_variants when the tables are done: js['variants'][1:] without the
\* tags that columns carry
unused_variants(js) ==
    { js.variants[i] : i \in 2..Len(js.variants) } \ ColumnTags(js)

\* no_duplicates: does the sequence hold an element twice
HasDuplicates(s) == \E i, j \in DOMAIN s : i < j /\ s[i] = s[j]

\* Metadata.validate, the part for the table with key tn: the exception
\* raised, NoneS if none
Metadata_validate(md, tn) ==
    IF \E i \in DOMAIN md.tables[tn].columns :
          /\ md.tables[tn].columns[i].var # NoneS
          /\ md.tables[tn].columns[i].var \notin Range(md.variants)
    THEN "RuntimeError"
    ELSE IF HasDuplicates([ i \in DOMAIN md.tables[tn].columns |-> hdr(md.tables[tn].columns[i]) ])
    THEN "ValueError"
    ELSE NoneS

\* the tables of a document in the order it lists them
TableOrder(js) == IndicesWhere(2, 1, [ i \in 1..2 |-> <<"Hourly", "Daily">>[i] \in DOMAIN js.tables ])

\* load_logger_metadata: the exception it raises, NoneS if it returns the
\* Metadata md
load_logger_metadata_Raises(js, md) ==
    IF HasDuplicates(js.variants) THEN "ValueError"
    ELSE IF js.variants = <<>> /\ ColumnTags(js) # {} THEN "KeyError"
    ELSE IF \E tn \in DOMAIN md.tables : \E k1, k2 \in DOMAIN md.tables[tn].variants :
               k1 # k2 /\ md.tables[tn].variants[k1] = md.tables[tn].variants[k2]
    THEN "ValueError"
    ELSE IF unused_variants(js) # {} THEN "ValueError"
    ELSE IF \E tn \in DOMAIN md.tables : Metadata_validate(md, tn) # NoneS
    THEN Metadata_validate(md,
            <<"Hourly", "Daily">>[TableOrder(js)[
                First({ i \in DOMAIN TableOrder(js) :
                          Metadata_validate(md, <<"Hourly", "Daily">>[TableOrder(js)[i]]) # NoneS })]])
    ELSE NoneS

\* columns that may follow TIMESTAMP in a table: two headers, each without
\* a tag, with a declared tag or with a tag that is declared nowhere
TaggedColumns ==
    { MdColumn("Note", NoneS, NoneS, NoType, v) : v \in {NoneS, "abc", "def", "xyz"} }
    \cup { MdColumn("Stamp", NoneS, "Smp", Type("TimestampWithTz"), v) :
             v \in {NoneS, "abc", "def", "xyz"} }

\* documents: no variants list, one or two tags in either order, a tag
\* twice; a table Hourly and possibly a table Daily
LoadDocuments ==
    { [ logger_name |-> "Foo", toa5_env_match |-> Toa5EnvMatch("A", NoneS, NoneS), tz |-> 0,
        variants |-> v,
        tables |-> [ tn \in (IF d = <<>> THEN {"Hourly"} ELSE {"Hourly", "Daily"}) |->
                       IF tn = "Hourly" THEN << PlainColumns[1] >> \o c ELSE d ] ] :
        v \in { <<>>, <<"abc">>, <<"abc", "def">>, <<"def", "abc">>, <<"abc", "abc">> },
        c \in SeqsUpTo(TaggedColumns, MaxCols),
        d \in { <<>>, << PlainColumns[1] >>,
                << PlainColumns[1], MdColumn("Stamp", NoneS, "Smp", Type("TimestampWithTz"), "def") >> } }

\* load_logger_metadata(file)
Load ==
    /\ call.fn = "none"
    /\ \E js \in LoadDocuments :
          call' = [fn |-> "load_logger_metadata", js |-> js,
                   out |-> IF load_logger_metadata_Raises(js, load_logger_metadata(js, 1)) = NoneS
                           THEN Ok(load_logger_metadata(js, 1))
                           ELSE Fail(load_logger_metadata_Raises(js, load_logger_metadata(js, 1)))]
    /\ UNCHANGED <<mds, ntamper, hm, recs, rop, ts, inf, imp, objs, coll>>


----------------------------------------------------------------------------
(* Time ranges: loggerdata/metadata.py, class TimeRange.  An instant is a
   number of time units after the first instant of the model; validate_set
   only compares instants.  An end of NoneI is Python's None: a timestamp
   instead of a range. *)

TimeRange(why, start, end) == [why |-> why, start |-> start, end |-> end]

\* validate_set, the value of bad for the pair x, y of combinations(ranges, 2)
validate_set_bad(x, y) ==
    IF x.end # NoneI /\ y.end # NoneI THEN
        \/ /\ x.start < y.start /\ y.start < x.end
           /\ x.start < y.end /\ y.end < x.end
        \/ /\ y.start < x.start /\ x.start < y.end
           /\ y.start < x.end /\ x.end < y.end
        \/ x.start < y.start /\ y.start < x.end
        \/ x.start < y.end /\ y.end < x.end
    ELSE IF x.end # NoneI THEN x.start < y.start /\ y.start < x.end
    ELSE IF y.end # NoneI THEN y.start < x.start /\ x.start < y.end
    ELSE x.start = y.start

\* TimeRange.validate_set: the exception raised, NoneS if it returns
validate_set(ranges) ==
    IF \E i, j \in DOMAIN ranges : i < j /\ validate_set_bad(ranges[i], ranges[j])
    THEN "ValueError" ELSE NoneS

\* timestamps and ranges with end after start, at every position
TimeRanges ==
    { TimeRange("x", start, end) :
        start \in 0..MaxTime, end \in {NoneI} \cup 1..MaxTime } \
    { r \in [why : {"x"}, start : 0..MaxTime, end : 1..MaxTime] : r.end <= r.start }

\* TimeRange.validate_set(ranges)
ValidateSet ==
    /\ call.fn = "none"
    /\ \E ranges \in SeqsUpTo(TimeRanges, MaxRanges) :
          call' = [fn |-> "validate_set", ranges |-> ranges, out |-> validate_set(ranges)]
    /\ UNCHANGED <<mds, ntamper, hm, recs, rop, ts, inf, imp, objs, coll>>

----------------------------------------------------------------------------
(* Intervals as functions without state: loggerdata/metadata.py, Interval *)

\* Interval.delta: a timedelta or relativedelta(months=1) as a record of
\* months, days and seconds; ValueError for UNDEF
Interval_delta(interval) ==
    CASE interval = "MIN15"  -> Ok([months |-> 0, days |-> 0, seconds |-> 900])
      [] interval = "MIN30"  -> Ok([months |-> 0, days |-> 0, seconds |-> 1800])
      [] interval = "HOUR1"  -> Ok([months |-> 0, days |-> 0, seconds |-> 3600])
      [] interval = "DAY1"   -> Ok([months |-> 0, days |-> 1, seconds |-> 0])
      [] interval = "WEEK1"  -> Ok([months |-> 0, days |-> 7, seconds |-> 0])
      [] interval = "MONTH1" -> Ok([months |-> 1, days |-> 0, seconds |-> 0])
      [] OTHER               -> Fail("ValueError")

\* Interval.floor, then the call of the function it returns; the property
\* raises ValueError for UNDEF
timefloor(interval, stamp) ==
    IF interval = "UNDEF" THEN Fail("ValueError")
    ELSE Ok(Interval_floor(interval, stamp))

\* timestamps as in test_timefloor: days of every weekday around the turn
\* of a year and of a leap February, minutes on both sides of every
\* quarter, with and without seconds and microseconds
FloorStamps ==
    { [ datetime(ymd[1], ymd[2], ymd[3], h, mi, sec) EXCEPT !.microsecond = us ] :
        ymd \in { <<2022, 12, 26>>, <<2022, 12, 31>>, <<2023, 1, 1>>, <<2023, 1, 3>>,
                  <<2024, 2, 28>>, <<2024, 2, 29>>, <<2024, 3, 1>>, <<2022, 5, 20>> },
        h \in {0, 23}, mi \in {0, 14, 15, 29, 30, 44, 45, 59},
        sec \in {0, 59}, us \in {0, 999999} }

\* interval.floor(stamp) and interval.delta
Floor ==
    /\ call.fn = "none"
    /\ \E interval \in Intervals, stamp \in FloorStamps :
          call' = [fn |-> "floor", interval |-> interval, stamp |-> stamp,
                   out |-> timefloor(interval, stamp), delta |-> Interval_delta(interval)]
    /\ UNCHANGED <<mds, ntamper, hm, recs, rop, ts, inf, imp, objs, coll>>

----------------------------------------------------------------------------
(* Quality of a value: loggerdata/qualitycheck.py, basic_quality.  A value
   is a record of its Python type t; a string has its characters s; a
   number has the mantissa m, in ten-thousandths, and the decimal exponent
   e of m * 10^e, and a float has a kind (finite, inf or nan). *)

PyNone == [t |-> "NoneType"]
PyStr(s) == [t |-> "str", s |-> s]
PyInt(n, e) == [t |-> "int", m |-> n * 10000, e |-> e]
PyBool(b) == [t |-> "bool", m |-> IF b THEN 10000 ELSE 0, e |-> 0]
PyFloat(kind, m) == [t |-> "float", kind |-> kind, m |-> m, e |-> 0]
PyOther(t) == [t |-> t]

\* the largest decimal exponent of a float: 10^308 < sys.float_info.max < 10^309
FloatMax10Exp == 308

\* str.isspace
isspace(s) == s # <<>> /\ \A i \in DOMAIN s : s[i] \in {" ", "\t", "\n"}

\* val in unusualvals: == of Python, where numbers of all types compare by
\* value, nan equals nothing and a string equals only the same string
PyIn(val, unusualvals) ==
    \E u \in unusualvals :
        \/ val.t = "str" /\ u.t = "str" /\ val.s = u.s
        \/ /\ val.t \in {"int", "bool", "float"} /\ u.t \in {"int", "bool", "float"}
           /\ (val.t = "float" => val.kind # "nan") /\ (u.t = "float" => u.kind # "nan")
           /\ (val.t = "float" /\ val.kind = "inf") = (u.t = "float" /\ u.kind = "inf")
           /\ val.m = u.m /\ val.e = u.e

\* math.isfinite(val): an int is converted to float first
isfinite(val) ==
    IF val.t = "float" THEN Ok(val.kind = "finite")
    ELSE IF val.m # 0 /\ val.e > FloatMax10Exp THEN Fail("OverflowError")
    ELSE Ok(TRUE)

\* the branch of basic_quality for bool, int and float
basic_quality_Number(val, unusualvals, finite) ==
    IF ~ finite.ok THEN Fail(finite.err)
    ELSE IF ~ finite.val THEN Ok("BAD")
    ELSE Ok(IF PyIn(val, unusualvals) THEN "UNUSUAL" ELSE "GOOD")

\* basic_quality(val, unusualvals=...)
basic_quality(val, unusualvals) ==
    IF val.t = "NoneType" THEN Ok("BAD")
    ELSE IF val.t = "str" THEN
        IF IsNan(val.s) THEN Ok("BAD")
        ELSE Ok(IF isspace(val.s) \/ PyIn(val, unusualvals) THEN "UNUSUAL" ELSE "GOOD")
    ELSE IF val.t \in {"bool", "int", "float"} THEN
        basic_quality_Number(val, unusualvals, isfinite(val))
    ELSE IF val.t = "datetime" THEN Ok("GOOD")
    ELSE IF val.t = "complex" THEN Ok("UNUSUAL")
    ELSE Ok("BAD")

DEFAULT_UNUSUAL ==
    { PyStr(<<>>), PyInt(7999, 0), PyInt(-7999, 0),
      PyStr(<<"7","9","9","9">>), PyStr(<<"-","7","9","9","9">>) }

\* the values of test_basic_quality, a value of a type that basic_quality
\* does not name, and integers beyond the range of float
QualityValues ==
    { PyNone, PyStr(<<"a","b","c">>), PyStr(<<>>), PyStr(<<" "," ">>), PyStr(<<"i","n","f">>),
      PyStr(<<"N","A","N">>), PyStr(<<"n","a","n">>), PyStr(<<"7","9","9","9">>),
      PyStr(<<"-","7","9","9","9">>), PyStr(<<"x">>),
      PyInt(0, 0), PyInt(2, 0), PyInt(-42, 0), PyInt(7999, 0), PyInt(-7999, 0),
      PyInt(9, 39), PyInt(1, 308), PyInt(1, 400), PyInt(-1, 400),
      PyBool(TRUE), PyBool(FALSE),
      PyFloat("finite", 0), PyFloat("finite", 10000), PyFloat("finite", 79989999),
      PyFloat("finite", 79990000), PyFloat("finite", -79990000), PyFloat("finite", 79990001),
      PyFloat("nan", 0), PyFloat("inf", 0),
      PyOther("datetime"), PyOther("complex"), PyOther("object"), PyOther("Decimal") }

\* sets given as unusualvals
UnusualSets ==
    { DEFAULT_UNUSUAL, {}, { PyStr(<<"x">>) }, { PyInt(2, 0), PyStr(<<"n","a","n">>) },
      { PyFloat("finite", 10000) } }

\* basic_quality(val, unusualvals=unusualvals)
BasicQuality ==
    /\ call.fn = "none"
    /\ \E val \in QualityValues, unusualvals \in UnusualSets :
          call' = [fn |-> "basic_quality", val |-> val, unusualvals |-> unusualvals,
                   out |-> basic_quality(val, unusualvals)]
    /\ UNCHANGED <<mds, ntamper, hm, recs, rop, ts, inf, imp, objs, coll>>

NextCalls == TypeMethod \/ FromString \/ Load \/ ValidateSet \/ Floor \/ BasicQuality

SpecCalls == InitIdle /\ [][NextCalls]_vars

----------------------------------------------------------------------------
(* Objects and their parent references: loggerdata/metadata.py, MdTable and
   Metadata.  objs.tables and objs.mds hold the objects by id; the parent of
   a table is the id of a Metadata, 0 for None; a Metadata's tables dict
   maps each key to the id of the table object it holds. *)

\* Metadata.__post_init__: tbl.parent = self for every table held
post_init(tables, held, self) ==
    [ t \in DOMAIN tables |->
        IF t \in held THEN [tables[t] EXCEPT !.parent = self] ELSE tables[t] ]

\* Metadata.validate, the check of the parents: ValueError or None
validate_parent(self) ==
    IF \E tn \in DOMAIN objs.mds[self].tables :
          objs.tables[objs.mds[self].tables[tn]].parent # self
    THEN "ValueError" ELSE NoneS

\* MdTable(name=...): parent is None until a Metadata holds the table
NewTable ==
    /\ Len(objs.tables) < MaxTbls
    /\ \E name \in {"Daily", "Hourly"} :
          objs' = [objs EXCEPT !.tables = Append(@, [name |-> name, parent |-> 0]),
                               !.last = [op |-> "MdTable"]]
    /\ UNCHANGED <<mds, ntamper, hm, recs, rop, ts, inf, imp, call, coll>>

\* Metadata(logger_name=..., tables={t.name: t, ...}) over tables of
\* different names, then __post_init__
NewMetadata ==
    /\ Len(objs.mds) < MaxMdObjs
    /\ \E held \in SUBSET DOMAIN objs.tables :
          /\ \A t, u \in held : objs.tables[t].name = objs.tables[u].name => t = u
          /\ objs' = [objs EXCEPT
                !.mds = Append(@, [ tables |->
                          [ tn \in { objs.tables[t].name : t \in held } |->
                              CHOOSE t \in held : objs.tables[t].name = tn ] ]),
                !.tables = post_init(@, held, Len(objs.mds) + 1),
                !.last = [op |-> "Metadata"]]
    /\ UNCHANGED <<mds, ntamper, hm, recs, rop, ts, inf, imp, call, coll>>

\* md.validate()
Validate ==
    /\ \E self \in DOMAIN objs.mds :
          objs' = [objs EXCEPT !.last = [op |-> "validate", self |-> self,
                                         out |-> validate_parent(self)]]
    /\ UNCHANGED <<mds, ntamper, hm, recs, rop, ts, inf, imp, call, coll>>

NextObjects == NewTable \/ NewMetadata \/ Validate

SpecObjects == InitIdle /\ [][NextObjects]_vars

----------------------------------------------------------------------------
(* Collections: loggerdata/metadata.py, MdCollection.  A Metadata object is
   named by its id in mds, an MdTable object by the pair <<id, key>> of the
   Metadata that holds it and its key there.  Metadata and MdTable are
   dataclasses without a hash: unique_everseen and the operator `in` compare
   them with ==, which compares all fields but the parent of a table. *)

MdArg(id) == [t |-> "Metadata", id |-> id]
TblArg(ref) == [t |-> "MdTable", ref |-> ref]
StrArg(s) == [t |-> "str", s |-> s]
CollArg(c) == [t |-> "MdCollection", mds |-> c.mds, tables |-> c.tables]

Tbl(ref) == mds[ref[1]].tables[ref[2]]

\* what == compares: the fields of an MdTable without its parent, the
\* fields of a Metadata, and None in the place of a Metadata
TblKey(ref) == [Tbl(ref) EXCEPT !.parent = 0]
MdKey(id) ==
    IF id = 0 THEN [logger_name |-> NoneS]
    ELSE [mds[id] EXCEPT !.tables = [ tn \in DOMAIN @ |-> [@[tn] EXCEPT !.parent = 0] ]]

Pick(s, idx) == [ j \in DOMAIN idx |-> s[idx[j]] ]

\* more_itertools.unique_everseen for unhashable items: an item is kept if
\* it equals none before it; key[i] is what == compares for s[i]
unique_everseen(s, key) ==
    Pick(s, IndicesWhere(Len(s), 1,
                [ i \in DOMAIN s |-> \A j \in 1..(i - 1) : key[j] # key[i] ]))

\* md.tables.values(), in the order of the dict
TableValues(id) ==
    Pick([ i \in 1..2 |-> TblArg(<<id, <<"Daily", "Hourly">>[i]>>) ],
         IndicesWhere(2, 1, [ i \in 1..2 |-> <<"Daily", "Hourly">>[i] \in DOMAIN mds[id].tables ]))

\* chain.from_iterable over the sequences seqs[i], ...
RECURSIVE Chain(_, _)
Chain(seqs, i) == IF i > Len(seqs) THEN <<>> ELSE seqs[i] \o Chain(seqs, i + 1)

IsMetadata(a) == a.t = "Metadata"
IsCollection(a) == a.t = "MdCollection"
IsTable(a) == a.t \notin {"Metadata", "MdCollection"}
IsMdTable(a) == a.t = "MdTable"

\* lines 420-432: every table is resolved and checked, then the tables
\* are de-duplicated; byname[i] are the tables named by a string item
MdCollection_Resolve(_mds, tables, byname) ==
    IF \E i \in DOMAIN tables :
          \/ /\ tables[i].t = "MdTable"
             /\ \A k \in DOMAIN _mds : MdKey(_mds[k]) # MdKey(Tbl(tables[i].ref).parent)
          \/ tables[i].t # "MdTable" /\ Len(byname[i]) # 1
    THEN Fail("ValueError")
    ELSE Ok([ mds |-> _mds,
              tables |-> unique_everseen(
                  [ i \in DOMAIN tables |->
                      IF tables[i].t = "MdTable" THEN tables[i].ref ELSE byname[i][1].ref ],
                  [ i \in DOMAIN tables |->
                      TblKey(IF tables[i].t = "MdTable" THEN tables[i].ref
                             ELSE byname[i][1].ref) ]) ])

\* line 418: None has no logger_name (AttributeError), a name seen before
\* is a duplicate (ValueError); bad is the first such index
MdCollection_Names(_mds, tables, bad) ==
    IF bad # 0 THEN Fail(IF _mds[bad] = 0 THEN "AttributeError" ELSE "ValueError")
    ELSE MdCollection_Resolve(_mds, tables,
            [ i \in DOMAIN tables |->
                IF tables[i].t = "str"
                THEN SelectSeq(Chain([ k \in DOMAIN _mds |-> TableValues(_mds[k]) ], 1),
                               LAMBDA a : Tbl(a.ref).name = tables[i].s)
                ELSE <<>> ])

\* line 418: the index of the first metadata whose logger name cannot be
\* read or was seen before, 0 if there is none
MdCollection_Check(_mds, tables) ==
    MdCollection_Names(_mds, tables,
        First({ i \in DOMAIN _mds :
                  \/ _mds[i] = 0
                  \/ \E j \in 1..(i - 1) :
                        _mds[j] # 0 /\ mds[_mds[j]].logger_name = mds[_mds[i]].logger_name }))

\* lines 411-415: without tables there is nothing; without metadatas they
\* are the parents of the MdTable items
MdCollection_Parents(items) ==
    unique_everseen([ i \in DOMAIN items |-> Tbl(items[i].ref).parent ],
                    [ i \in DOMAIN items |-> MdKey(Tbl(items[i].ref).parent) ])

MdCollection_Mds(_mds, tables) ==
    IF tables = <<>> THEN Fail("ValueError")
    ELSE IF _mds # <<>> THEN MdCollection_Check(_mds, tables)
    ELSE IF SelectSeq(tables, IsMdTable) = <<>> THEN Fail("ValueError")
    ELSE MdCollection_Check(MdCollection_Parents(SelectSeq(tables, IsMdTable)), tables)

\* lines 407-409: without table arguments the tables are those of the
\* metadatas
MdCollection_Tables(_mds, tables) ==
    IF tables = <<>> THEN
        IF _mds = <<>> THEN Fail("ValueError")
        ELSE MdCollection_Mds(_mds, Chain([ k \in DOMAIN _mds |-> TableValues(_mds[k]) ], 1))
    ELSE MdCollection_Mds(_mds, tables)

\* MdCollection.__init__(*anymd), lines 402-405
MdCollection(anymd) ==
    MdCollection_Tables(
        unique_everseen([ i \in DOMAIN SelectSeq(anymd, IsMetadata) |->
                            SelectSeq(anymd, IsMetadata)[i].id ],
                        [ i \in DOMAIN SelectSeq(anymd, IsMetadata) |->
                            MdKey(SelectSeq(anymd, IsMetadata)[i].id) ]),
        SelectSeq(anymd, IsTable)
          \o Chain([ i \in DOMAIN SelectSeq(anymd, IsCollection) |->
                       [ k \in DOMAIN SelectSeq(anymd, IsCollection)[i].tables |->
                           TblArg(SelectSeq(anymd, IsCollection)[i].tables[k]) ] ], 1))

\* MdCollection.__eq__, lines 440-443
MdCollection_eq(c, d) ==
    /\ Len(c.mds) = Len(d.mds)
    /\ \A i \in DOMAIN c.mds : MdKey(c.mds[i]) = MdKey(d.mds[i])
    /\ Len(c.tables) = Len(d.tables)
    /\ \A i \in DOMAIN c.tables : TblKey(c.tables[i]) = TblKey(d.tables[i])

----------------------------------------------------------------------------
(* The metadatas of tests/test_logger_metadata.py, test_metadata_collection:
   md1 with the tables Daily and Hourly, md2 with a table Daily, and a
   copy of md2 that a test changed *)

CollDocument(name, station, tables) ==
    [ logger_name |-> name, toa5_env_match |-> Toa5EnvMatch(station, NoneS, NoneS),
      tz |-> 0, variants |-> <<"abc", "def">>, tables |-> tables ]

\* tempcopy(md2) after md3.tables.clear() (line 430), after
\* md4.logger_name = md1.logger_name (line 434), or after
\* md.tables[...].parent = None (line 283)
ChangedCopies(daily) ==
    { [load_logger_metadata(CollDocument("Bar", "B", "Daily" :> daily), 3)
         EXCEPT !.tables = <<>>],
      load_logger_metadata(CollDocument("Foo", "B", "Daily" :> daily), 3),
      [load_logger_metadata(CollDocument("Bar", "B", "Daily" :> daily), 3)
         EXCEPT !.tables["Daily"].parent = 0] }

CollMetadatas ==
    { << load_logger_metadata(
            CollDocument("Foo", "A", ("Daily" :> PlainColumns) @@ ("Hourly" :> HourlyColumns)), 1),
         load_logger_metadata(CollDocument("Bar", "B", "Daily" :> daily), 2),
         md3 >> :
        daily \in { PlainColumns, <<PlainColumns[1]>> }, md3 \in ChangedCopies(<<PlainColumns[2]>>) }

\* the arguments of a constructor call: metadatas, tables and table names
CollArgs ==
    { MdArg(id) : id \in DOMAIN mds }
    \cup { TblArg(<<id, tn>>) : id \in DOMAIN mds, tn \in {"Daily", "Hourly"} }
    \cup { StrArg(s) : s \in {"Daily", "Hourly", "foo"} }

\* the files read against a collection: environment line and header
CollFiles ==
    { << EnvironmentLine(st, "X", "1", tn), [ i \in DOMAIN c |-> hdr(c[i]) ] >> :
        st \in {"A", "B"}, tn \in {"Daily", "Hourly"}, c \in { PlainColumns } }

InitColl ==
    /\ mds \in CollMetadatas
    /\ ntamper = 0
    /\ hm = NoCall
    /\ recs = IdleRecs
    /\ rop = IdleRop
    /\ ts = IdleTs
    /\ inf = IdleInf /\ imp = IdleImp /\ call = IdleCall
    /\ objs = IdleObjs /\ coll = IdleColl

\* MdCollection(*anymd) called by a user
NewCollection ==
    /\ coll.pc = "none"
    /\ \E anymd \in SeqsUpTo({ a \in CollArgs : a.t = "MdTable" => a.ref[2] \in DOMAIN mds[a.ref[1]].tables },
                             MaxArgs) :
        coll' = [pc |-> "made", anymd |-> anymd, made |-> MdCollection(anymd),
                 out |-> MdCollection(anymd), wraps |-> 0]
    /\ UNCHANGED <<mds, ntamper, hm, recs, rop, ts, inf, imp, call, objs>>

\* metadatas = MdCollection(metadatas): get_record_sources (importer.py
\* line 64) wraps the collection it is given before a file is read
Rewrap ==
    /\ coll.pc \in {"made", "wrapped"}
    /\ coll.out.ok
    /\ coll.wraps < MaxWraps
    /\ ~ hm.called
    /\ coll' = [coll EXCEPT !.pc = "wrapped",
                            !.out = MdCollection(<<CollArg(coll.out.val)>>),
                            !.wraps = @ + 1]
    /\ UNCHANGED <<mds, ntamper, hm, recs, rop, ts, inf, imp, call, objs>>

\* read_toa5_records, lines 72 and 75: the metadatas given are wrapped
\* and the header of the file is matched against the result
Toa5Match(envline, columns, metadatas) ==
    IF metadatas.ok THEN header_match(envline, columns, metadatas.val.mds)
    ELSE Raised(metadatas.err, 0, NoneS, NoTbl)

\* read_toa5_records(fh, metadatas=c) up to the header of the file
ReadHeader ==
    /\ coll.pc \in {"made", "wrapped"}
    /\ coll.out.ok
    /\ ~ hm.called
    /\ \E file \in CollFiles :
        hm' = [called |-> TRUE, envline |-> file[1], columns |-> file[2],
               metadatas |-> coll.out.val.mds,
               out |-> Toa5Match(file[1], file[2], MdCollection(<<CollArg(coll.out.val)>>))]
    /\ UNCHANGED <<mds, ntamper, recs, rop, ts, inf, imp, call, objs, coll>>

NextColl == NewCollection \/ Rewrap \/ ReadHeader

SpecColl == InitColl /\ [][NextColl]_vars

----------------------------------------------------------------------------
(* Properties of the resolver *)

\* the positions of the search sequence whose metadata is a candidate for the
\* observed environment line, stated from the metadata alone
Candidates ==
    { i \in DOMAIN hm.metadatas :
        LET md == mds[hm.metadatas[i]]
        IN  /\ md.logger_type = "TOA5"
            /\ \A f \in Range(EnvFields) :
                  md.toa5_env_match[f] = NoneS \/ md.toa5_env_match[f] = hm.envline[f] }

\* the one candidate, when there is exactly one
TheMd == hm.metadatas[CHOOSE i \in Candidates : TRUE]

OneCandidate == hm.called /\ Cardinality(Candidates) = 1

TableKnown == OneCandidate /\ hm.envline.table_name \in DOMAIN mds[TheMd].tables

TheVariants == mds[TheMd].tables[hm.envline.table_name].variants

\* C1: with exactly one matching metadata, a configured table and a
\* registered header, header_match returns that table and exactly the index
\* tuple registered under the header, of the header's length; a registered
\* tuple of another length is not returned: RuntimeError, not a
\* DataImportError, is raised.
C1_RegisteredVariantReturned ==
    (TableKnown /\ hm.columns \in DOMAIN TheVariants) =>
        IF Len(TheVariants[hm.columns]) = Len(hm.columns)
        THEN /\ hm.out.kind = "return"
             /\ hm.out.tblmd = <<TheMd, hm.envline.table_name>>
             /\ hm.out.variant = TheVariants[hm.columns]
             /\ Len(hm.out.variant) = Len(hm.columns)
        ELSE /\ hm.out.kind = "raise"
             /\ hm.out.exc = "RuntimeError"
             /\ hm.out.exc \notin DataImportErrors

C1_Witness ==
    /\ TableKnown
    /\ hm.columns \in DOMAIN TheVariants
    /\ hm.out.kind = "return"
    /\ Len(hm.out.variant) = 2
    /\ Cardinality(DOMAIN TheVariants) > 1

\* C2: with exactly one matching metadata and a configured table, a header
\* that is not a key of the table's variant map makes header_match fail with
\* NoVariantMatch, a DataImportError; no permutation is returned.
C2_UnknownHeaderRaisesNoVariantMatch ==
    (TableKnown /\ hm.columns \notin DOMAIN TheVariants) =>
        /\ hm.out.kind = "raise"
        /\ hm.out.exc = "NoVariantMatch"
        /\ hm.out.exc \in DataImportErrors

\* C3: with exactly one matching metadata whose tables do not contain the
\* observed table name, header_match fails with NoTableMatch, which carries
\* the matched metadata and the attempted table name.
C3_UnknownTableRaisesNoTableMatch ==
    (OneCandidate /\ hm.envline.table_name \notin DOMAIN mds[TheMd].tables) =>
        /\ hm.out.kind = "raise"
        /\ hm.out.exc = "NoTableMatch"
        /\ hm.out.md = TheMd
        /\ hm.out.table_name = hm.envline.table_name

\* C4: a metadata is a candidate iff it is of type TOA5 and every non-null
\* field of its Toa5EnvMatch equals the field of the environment line (the
\* table name is not looked at).  No candidate: NoMetadataMatch.  More than
\* one: RuntimeError, not a DataImportError, and nothing is returned.  The
\* table and variant stages run only for exactly one candidate, on it.
C4_MetadataStage ==
    hm.called =>
        /\ Cardinality(Candidates) = 0 =>
              hm.out.kind = "raise" /\ hm.out.exc = "NoMetadataMatch"
        /\ Cardinality(Candidates) > 1 =>
              /\ hm.out.kind = "raise"
              /\ hm.out.exc = "RuntimeError"
              /\ hm.out.exc \notin DataImportErrors
        /\ Cardinality(Candidates) = 1 => hm.out.exc # "NoMetadataMatch"
        /\ hm.out.kind = "return" =>
              Cardinality(Candidates) = 1 /\ hm.out.tblmd[1] = TheMd
        /\ hm.out.exc \in {"NoTableMatch", "NoVariantMatch", "TypeError"} =>
              Cardinality(Candidates) = 1

C4_Witness ==
    /\ hm.called
    /\ Cardinality(Candidates) = 2
    /\ hm.metadatas = <<1, 2>>
    /\ mds[2].toa5_env_match.station_name = NoneS
    /\ hm.out.exc = "RuntimeError"

----------------------------------------------------------------------------
(* Properties of the Record engine *)

\* the Record the last operation was called on
Self == recs[rop.self]

\* the 0-based logical indices the variant of a Record names
Mapped(rec) == { rec.variant[i] : i \in DOMAIN rec.variant }

\* C5: fullrow raises RecordError when the raw row and the variant differ in
\* length; otherwise it has one entry per column of the table, the entry at
\* logical index variant[i] is origrow[i], and exactly the positions the
\* variant does not name hold None, which no raw value, "" included, equals.
C5_FullrowScatters ==
    rop.op = "fullrow" =>
        IF Len(Self.origrow) # Len(Self.variant)
        THEN rop.out = "raise" /\ rop.err = "RecordError"
        ELSE /\ rop.out = "return"
             /\ Len(rop.fullrow) = Len(TableOf(Self).columns)
             /\ \A i \in DOMAIN Self.variant :
                   rop.fullrow[Self.variant[i] + 1] = Self.origrow[i]
             /\ \A j \in DOMAIN rop.fullrow :
                   (rop.fullrow[j] = None) <=> (j - 1 \notin Mapped(Self))
             /\ \A j \in DOMAIN rop.fullrow :
                   (j - 1 \notin Mapped(Self)) => rop.fullrow[j] # <<>>

C5_Witness ==
    /\ rop.op = "fullrow" /\ rop.out = "return"
    /\ \E j \in DOMAIN rop.fullrow : rop.fullrow[j] = None
    /\ \E j \in DOMAIN rop.fullrow : rop.fullrow[j] = <<>>
    /\ Cardinality(DOMAIN TableOf(Self).variants) > 1

\* the physical positions of a Record whose column has a type that rejects
\* the raw value
Rejected(rec) ==
    { i \in DOMAIN rec.origrow :
        /\ i \in DOMAIN rec.variant
        /\ TableOf(rec).columns[rec.variant[i] + 1].type # NoType
        /\ ~ check(TableOf(rec).columns[rec.variant[i] + 1].type, rec.origrow[i]) }

\* C6: typecheck checks the raw value of every physical column whose logical
\* column has a type; a failing check raises a TypeError that names the
\* column and the value; untyped columns are skipped; if every typed column
\* passes, nothing is raised.
C6_TypecheckNamesColumnAndValue ==
    (rop.op = "typecheck" /\ Len(Self.origrow) = Len(Self.variant)) =>
        IF Rejected(Self) # {}
        THEN /\ rop.out = "raise"
             /\ rop.err = "TypeError"
             /\ \E i \in Rejected(Self) :
                   /\ rop.col = hdr(TableOf(Self).columns[Self.variant[i] + 1])
                   /\ rop.val = Self.origrow[i]
        ELSE rop.out = "return"

HasTimestampNoTz(tbl) ==
    \E j \in DOMAIN tbl.columns : tbl.columns[j].type.kind = "TimestampNoTz"

\* the raw values of a Record that belong to timestamp columns
TimestampValues(rec) ==
    { rec.origrow[i] : i \in { k \in DOMAIN rec.origrow :
        TableOf(rec).columns[rec.variant[k] + 1].type.kind
            \in {"TimestampNoTz", "TimestampWithTz"} } }

\* C7: for a Record of a table with a TimestampNoTz column whose row passes
\* typecheck(), tzconv() does not raise and returns a Record whose timestamp
\* values are canonical UTC strings ending in Z, and typecheck() on that
\* result raises.
C7_TzconvAfterTypecheck ==
    (/\ rop.op = "tzconv"
     /\ HasTimestampNoTz(TableOf(Self))
     /\ typecheck(rop.self).out = "return") =>
        /\ rop.out = "return"
        /\ \A v \in TimestampValues(recs[rop.ret]) :
              MatchesPattern(v, TimestampPattern \o <<"Z">>)
        /\ typecheck(rop.ret).out = "raise"

\* C8 as claimed: typecheck() returns a new Record, not the object it was
\* called on.
C8_TypecheckReturnsNewRecord ==
    (rop.op = "typecheck" /\ rop.out = "return") => rop.ret # rop.self

\* C8 as amended: typecheck() never modifies the Record it is called on (nor
\* creates another one) and, when no check fails, returns that same object.
C8_TypecheckReturnsSelfUnmodified ==
    [][ rop'.op = "typecheck" =>
          /\ recs' = recs
          /\ rop'.out = "return" => rop'.ret = rop'.self ]_vars

C8_Witness ==
    /\ rop.op = "typecheck" /\ rop.out = "return"
    /\ rop.ret = rop.self
    /\ Len(Self.origrow) = 2
    /\ Self.fullrow # <<"unset">>

----------------------------------------------------------------------------
(* Properties of the quality checker *)

Aligned(t) == t = Interval_floor(ts.interval, t)

\* the classification the rule gives to y after x
Expected(x) == PlusDelta(ts.interval, Interval_floor(ts.interval, x))
PairQuality(x, y) ==
    IF ~ Aligned(y) THEN "BAD"
    ELSE IF y = Expected(x) THEN "GOOD"
    ELSE IF DtLess(Expected(x), y) THEN "UNUSUAL"
    ELSE "BAD"

C10_OnePerElement ==
    (ts.pc = "done" /\ ts.interval # "UNDEF") =>
        /\ Len(ts.out) = Len(ts.seq)
        /\ Len(ts.seq) = 1 =>
              ts.out = << IF Aligned(ts.seq[1]) THEN "GOOD" ELSE "BAD" >>

----------------------------------------------------------------------------
(* Properties of type inference *)

\* the values sent, in the order p
Reordered(strings, p) == [ i \in DOMAIN strings |-> strings[p[i]] ]

\* C11: a type returned by finish after a sequence of send calls accepts
\* every value that was sent (T.check(v) is true for each of them).
C11_InferredTypeAcceptsAllSent ==
    (inf.pc = "finished" /\ inf.out.ok /\ inf.out.val # NoType) =>
        \A i \in DOMAIN inf.sent : check(inf.out.val, inf.sent[i])

\* C12: run gives the same outcome (the same type, None, or the same
\* exception) for every ordering of the values that were sent.
C12_RunOrderIndependent ==
    (inf.pc \in {"finished", "raised"}) =>
        \A p \in Permutations(DOMAIN inf.sent) :
            run(TypeInferrer(inf.do_raise), Reordered(inf.sent, p), 1) = inf.out

C12_Witness ==
    /\ inf.pc = "finished"
    /\ inf.sent = << <<"1",".","6","8">>, <<"2","3">>, <<"N","a","N">> >>
    /\ inf.out = Ok(Num(3, 2))
    /\ run(TypeInferrer(TRUE), << <<"N","a","N">>, <<"2","3">>, <<"1",".","6","8">> >>, 1) = inf.out

----------------------------------------------------------------------------
(* Properties of the scalar types *)

\* C13: for every scalar type and every string, to_py and to_np return a
\* value when check accepts the string and raise an exception when check
\* rejects it.
C13_CheckDecidesConversion ==
    (call.fn \in {"to_py", "to_np"}) =>
        (check(call.self, call.value) <=> call.out = NoneS)

\* C14: check of every scalar type accepts "nan" in any letter case.
C14_CheckAcceptsNan ==
    (call.fn = "check" /\ IsNan(call.value)) => call.out = "True"

\* C15: for every string s that from_string accepts, repr(from_string(s))
\* is s.
C15_ReprRoundTrip ==
    (call.fn = "from_string" /\ call.out.ok) => call.repr = call.s

----------------------------------------------------------------------------
(* Properties of the importer *)

\* what header_match gives for the header of a file
Resolved(file) == header_match(file.envline, file.columns, <<1, 2>>)

\* the file's environment line matches one metadata, which has no table of
\* the file's table name
Unconfigured(file) ==
    /\ file.ft = "TOA5"
    /\ Len(found(file.envline, <<1, 2>>)) = 1
    /\ file.envline.table_name \notin DOMAIN mds[found(file.envline, <<1, 2>>)[1]].tables

\* the rows of the file before its first row of a wrong length
GoodRows(file) ==
    First({ r \in 1..(Len(file.rows) + 1) :
              r \in DOMAIN file.rows => Len(file.rows[r]) # Len(Resolved(file).variant) }) - 1

\* the file resolves, has a record, and its values pass the type checks
Readable(file) ==
    /\ file.ft = "TOA5"
    /\ Resolved(file).kind = "return"
    /\ file.rows # <<>>
    /\ \A r \in DOMAIN file.rows :
          FirstTypeFailure(Record(file.rows[r], Resolved(file).tblmd, Resolved(file).variant,
                                  file.fns, r + 4, "TOA5")) = 0

\* the records of the rows 1..n of a file
RecordsOf(file, n) ==
    [ r \in 1..n |-> Record(file.rows[r], Resolved(file).tblmd, Resolved(file).variant,
                            file.fns, r + 4, "TOA5") ]

\* the records of the readable files of a source, in source order, those
\* of a file ending before its first row of a wrong length
RECURSIVE Importable(_)
Importable(source) ==
    IF source = <<>> THEN <<>>
    ELSE (IF Readable(Head(source)) THEN RecordsOf(Head(source), GoodRows(Head(source))) ELSE <<>>)
         \o Importable(Tail(source))

\* C16: with ignore_notablematch=True a file of a table that is not
\* configured contributes no record and no error, and the records of the
\* other files are all yielded in source order; with
\* ignore_notablematch=False the NoTableMatch reaches the caller.
C16_UnconfiguredTableSkipped ==
    ( /\ imp.pc \in {"done", "raised"}
      /\ \E f \in DOMAIN imp.source : Unconfigured(imp.source[f])
      /\ \A f \in DOMAIN imp.source :
            \/ Unconfigured(imp.source[f])
            \/ Readable(imp.source[f]) /\ GoodRows(imp.source[f]) = Len(imp.source[f].rows) )
    => IF imp.ignore_notablematch
       THEN imp.pc = "done" /\ imp.out = Importable(imp.source)
       ELSE imp.pc = "raised" /\ imp.err = "NoTableMatch"

\* C17: a file with a row of a wrong length yields no record from that row
\* on, and the records of the files after it are still yielded.
C17_RecordErrorKeepsBatch ==
    ( /\ imp.pc \in {"done", "raised"}
      /\ \E f \in DOMAIN imp.source :
            Readable(imp.source[f]) /\ GoodRows(imp.source[f]) < Len(imp.source[f].rows)
      /\ \A f \in DOMAIN imp.source : Readable(imp.source[f]) )
    => imp.out = Importable(imp.source)

----------------------------------------------------------------------------
(* Properties of the loader *)

\* the headers of all columns of a table, in order
AllHeaders(tbl) == [ i \in DOMAIN tbl.columns |-> hdr(tbl.columns[i]) ]

\* C18: in every table of a loaded Metadata the variant map is not empty;
\* every index tuple is as long as the header tuple that keys it, and its
\* entry i is the logical index of the column whose header is entry i of
\* the key; a table with a tagged column has the all-columns variant,
\* mapped to (0, 1, ..., n-1).
C18_VariantMapWellFormed ==
    (call.fn = "load_logger_metadata" /\ call.out.ok) =>
        \A tn \in DOMAIN call.out.val.tables :
            /\ DOMAIN call.out.val.tables[tn].variants # {}
            /\ \A k \in DOMAIN call.out.val.tables[tn].variants :
                  /\ Len(call.out.val.tables[tn].variants[k]) = Len(k)
                  /\ \A i \in DOMAIN k :
                        /\ call.out.val.tables[tn].variants[k][i] + 1
                              \in DOMAIN call.out.val.tables[tn].columns
                        /\ hdr(call.out.val.tables[tn].columns[
                                  call.out.val.tables[tn].variants[k][i] + 1]) = k[i]
            /\ (\E i \in DOMAIN call.out.val.tables[tn].columns :
                    call.out.val.tables[tn].columns[i].var # NoneS)
               => /\ AllHeaders(call.out.val.tables[tn]) \in DOMAIN call.out.val.tables[tn].variants
                  /\ call.out.val.tables[tn].variants[AllHeaders(call.out.val.tables[tn])]
                        = [ i \in DOMAIN call.out.val.tables[tn].columns |-> i - 1 ]

C18_Witness ==
    /\ call.fn = "load_logger_metadata" /\ call.out.ok
    /\ call.js.variants = <<"abc", "def">>
    /\ DOMAIN call.out.val.tables = {"Hourly", "Daily"}
    /\ Len(call.out.val.tables["Hourly"].columns) = 3
    /\ call.out.val.tables["Hourly"].columns[2].var = "abc"
    /\ call.out.val.tables["Hourly"].columns[3].var = "def"
    /\ Cardinality(DOMAIN call.out.val.tables["Hourly"].variants) = 3
    /\ Cardinality(DOMAIN call.out.val.tables["Daily"].variants) = 1

\* C19 as stated: a document with a declared tag that no column of any
\* table carries, or with a column tag that is not declared, never loads.
C19_EveryUnusedTagRejected ==
    ( /\ call.fn = "load_logger_metadata"
      /\ \/ Range(call.js.variants) \ ColumnTags(call.js) # {}
         \/ ColumnTags(call.js) \ Range(call.js.variants) # {} )
    => ~ call.out.ok

\* C19, amended: a document with a declared tag other than the first of
\* the list that no column of any table carries, or with a column tag that
\* is not declared, never loads.
C19_UnusedLaterTagRejected ==
    ( /\ call.fn = "load_logger_metadata"
      /\ \/ { call.js.variants[i] : i \in 2..Len(call.js.variants) } \ ColumnTags(call.js) # {}
         \/ ColumnTags(call.js) \ Range(call.js.variants) # {} )
    => ~ call.out.ok

C19_Witness ==
    /\ call.fn = "load_logger_metadata"
    /\ call.js.variants = <<"abc", "def">>
    /\ ColumnTags(call.js) = {"abc"}
    /\ ~ call.out.ok /\ call.out.err = "ValueError"

----------------------------------------------------------------------------
(* Properties of the time ranges *)

\* two entries collide: two ranges overlap or one contains the other, a
\* timestamp lies inside a range, or two timestamps are the same instant
Collide(x, y) ==
    IF x.end # NoneI /\ y.end # NoneI THEN x.start < y.end /\ y.start < x.end
    ELSE IF x.end # NoneI THEN x.start < y.start /\ y.start < x.end
    ELSE IF y.end # NoneI THEN y.start < x.start /\ x.start < y.end
    ELSE x.start = y.start

\* C20: validate_set raises ValueError exactly when two entries of the set
\* collide, whatever the relative position of their starts and ends, and
\* returns normally when no pair does.
C20_ValidateSetDetectsOverlap ==
    (call.fn = "validate_set") =>
        ( call.out = "ValueError" <=>
            \E i, j \in DOMAIN call.ranges : i < j /\ Collide(call.ranges[i], call.ranges[j]) )

----------------------------------------------------------------------------
(* Properties of the type inferrer, continued *)

\* C30: whatever strings are sent, none included, and whatever do_raise is,
\* the only outcomes are a scalar type or None (do_raise false, inference
\* failed) from finish and the TypeError of send (do_raise true); no
\* assertion of finish fails, also when finish follows a send that raised.
C30_NoAssertionFails ==
    /\ inf.pc = "raised" => inf.do_raise /\ inf.out = Fail("TypeError")
    /\ inf.pc \in {"finished", "finished_raised"} =>
          /\ inf.out.ok
          /\ inf.out.val = NoType => inf.failed /\ ~ inf.do_raise

----------------------------------------------------------------------------
(* Properties of the time ranges, continued *)

\* C27: the verdict of validate_set is the same for every ordering of the
\* entries: it raises for all orderings of a set of ranges or for none.
C27_ValidateSetOrderIndependent ==
    (call.fn = "validate_set") =>
        \A p \in Permutations(DOMAIN call.ranges) :
            validate_set(Reordered(call.ranges, p)) = call.out

----------------------------------------------------------------------------
(* Properties of the loader, continued *)

\* the raw row "1", "2", ... of a file whose header is k
RawRow(k) == [ i \in DOMAIN k |-> Str(i) ]

\* C29: in every table of a loaded Metadata each variant's index tuple is
\* strictly increasing and holds only indices in 0 .. len(columns)-1, so
\* that the logical row built with it has every raw value at its own
\* position and None at the positions the variant does not name.
C29_VariantIndicesIncreasing ==
    (call.fn = "load_logger_metadata" /\ call.out.ok) =>
        \A tn \in DOMAIN call.out.val.tables :
            \A k \in DOMAIN call.out.val.tables[tn].variants :
                /\ \A i \in DOMAIN call.out.val.tables[tn].variants[k] :
                      /\ call.out.val.tables[tn].variants[k][i] >= 0
                      /\ call.out.val.tables[tn].variants[k][i]
                            < Len(call.out.val.tables[tn].columns)
                      /\ \A j \in DOMAIN call.out.val.tables[tn].variants[k] :
                            i < j => call.out.val.tables[tn].variants[k][i]
                                        < call.out.val.tables[tn].variants[k][j]
                /\ \A p \in DOMAIN call.out.val.tables[tn].columns :
                      Scatter([ q \in DOMAIN call.out.val.tables[tn].columns |-> None ],
                              RawRow(k), call.out.val.tables[tn].variants[k], 1)[p]
                      = IF \E i \in DOMAIN k : call.out.val.tables[tn].variants[k][i] + 1 = p
                        THEN RawRow(k)[CHOOSE i \in DOMAIN k :
                                          call.out.val.tables[tn].variants[k][i] + 1 = p]
                        ELSE None

C29_Witness ==
    /\ call.fn = "load_logger_metadata" /\ call.out.ok
    /\ Len(call.out.val.tables["Hourly"].columns) = 3
    /\ \E k \in DOMAIN call.out.val.tables["Hourly"].variants :
          /\ call.out.val.tables["Hourly"].variants[k] = <<0, 2>>
          /\ Scatter(<<None, None, None>>, RawRow(k), <<0, 2>>, 1) = << <<"1">>, None, <<"2">> >>

----------------------------------------------------------------------------
(* Properties of the quality checker, continued *)

\* C25: for every interval but UNDEF and every input, an element that is
\* not strictly later than its predecessor is classified BAD; and when no
\* element is classified BAD, the input is strictly increasing and every
\* element is its own floor.
C25_DetectsEveryViolation ==
    (ts.pc = "done" /\ ts.interval # "UNDEF") =>
        /\ \A k \in 2..Len(ts.seq) :
              ~ DtLess(ts.seq[k - 1], ts.seq[k]) => k \in DOMAIN ts.out /\ ts.out[k] = "BAD"
        /\ (\A k \in DOMAIN ts.out : ts.out[k] # "BAD") =>
              /\ \A k \in 2..Len(ts.seq) : DtLess(ts.seq[k - 1], ts.seq[k])
              /\ \A k \in DOMAIN ts.seq : Aligned(ts.seq[k])

----------------------------------------------------------------------------
(* Properties of the intervals *)

\* C24: for every interval but UNDEF and every timestamp t, floor(t) is its
\* own floor and is not later than t; for UNDEF floor and delta raise
\* ValueError.
C24_FloorIdempotentAndBelow ==
    (call.fn = "floor") =>
        IF call.interval = "UNDEF"
        THEN call.out = Fail("ValueError") /\ call.delta = Fail("ValueError")
        ELSE /\ call.out.ok
             /\ timefloor(call.interval, call.out.val) = call.out
             /\ ~ DtLess(call.stamp, call.out.val)

\* Sunday 2023-01-01 23:59:59.999999 lies in the week of Monday 2022-12-26
C24_Witness ==
    /\ call.fn = "floor" /\ call.interval = "WEEK1"
    /\ call.stamp = [ datetime(2023, 1, 1, 23, 59, 59) EXCEPT !.microsecond = 999999 ]
    /\ call.out = Ok(datetime(2022, 12, 26, 0, 0, 0))

----------------------------------------------------------------------------
(* Properties of basic_quality *)

\* the values the rule calls BAD and UNUSUAL
RuleBad(val) ==
    \/ val.t = "NoneType"
    \/ val.t = "float" /\ val.kind # "finite"
    \/ val.t = "str" /\ IsNan(val.s)
RuleUnusual(val, unusualvals) ==
    \/ val.t = "str" /\ (val.s = <<>> \/ isspace(val.s))
    \/ PyIn(val, unusualvals)
    \/ val.t = "complex"

\* C23: basic_quality returns BAD for None, a non-finite number and "nan"
\* in any case; UNUSUAL for an empty or whitespace-only string, a member of
\* the configured sentinel set and a complex value; GOOD for every other
\* value, whatever sentinel set is configured.  A value in two of the
\* groups may get the result of either.
C23_BasicQualityRule ==
    (call.fn = "basic_quality") =>
        /\ call.out.ok
        /\ call.out.val = "BAD" => RuleBad(call.val)
        /\ call.out.val = "UNUSUAL" => RuleUnusual(call.val, call.unusualvals)
        /\ call.out.val = "GOOD" =>
              ~ RuleBad(call.val) /\ ~ RuleUnusual(call.val, call.unusualvals)

----------------------------------------------------------------------------
(* Properties of the parent references *)

\* C22: the parent of a table, once set by the construction of a Metadata
\* that holds it, is changed by no later operation, the construction of
\* another Metadata holding the same table included; and validate fails
\* for every Metadata that holds a table whose parent is another object.
C22_ParentSetOnce ==
    /\ [][ \A t \in DOMAIN objs.tables :
              objs.tables[t].parent # 0 => objs'.tables[t].parent = objs.tables[t].parent ]_vars
    /\ [] ( objs.last.op = "validate" =>
              ( (\E tn \in DOMAIN objs.mds[objs.last.self].tables :
                    objs.tables[objs.mds[objs.last.self].tables[tn]].parent # objs.last.self)
                => objs.last.out # NoneS ) )


----------------------------------------------------------------------------
(* Properties of collections *)

\* the Metadata arguments and the table arguments of a call, in order
ArgMetadatas(anymd) ==
    [ i \in DOMAIN SelectSeq(anymd, IsMetadata) |-> SelectSeq(anymd, IsMetadata)[i].id ]
ArgTables(anymd) == SelectSeq(anymd, IsTable)

\* the tables with a given name in a sequence of metadatas
TablesNamed(s, metadatas) ==
    { <<metadatas[k], tn>> : k \in DOMAIN metadatas, tn \in {"Daily", "Hourly"} }
      \cap { ref \in (1..Len(mds)) \X {"Daily", "Hourly"} :
               ref[2] \in DOMAIN mds[ref[1]].tables /\ Tbl(ref).name = s }

\* the table an argument selects among the metadatas
Selected(a, metadatas) ==
    IF a.t = "MdTable" THEN a.ref ELSE CHOOSE ref \in TablesNamed(a.s, metadatas) : TRUE

\* the tables a call selects: those of its table arguments, or all tables of
\* its metadatas if it has no table argument
SelectedTables(anymd, metadatas) ==
    IF ArgTables(anymd) # <<>>
    THEN [ i \in DOMAIN ArgTables(anymd) |-> Selected(ArgTables(anymd)[i], metadatas) ]
    ELSE [ i \in DOMAIN Chain([ k \in DOMAIN metadatas |-> TableValues(metadatas[k]) ], 1) |->
             Chain([ k \in DOMAIN metadatas |-> TableValues(metadatas[k]) ], 1)[i].ref ]

\* C21: constructing an MdCollection either fails with ValueError or yields
\* a collection whose metadatas are the distinct Metadata arguments in
\* first-seen order, whose tables are the distinct selected tables in
\* first-seen order, whose logger names are pairwise different and whose
\* every table belongs to one of its metadatas; it fails when given no
\* arguments, a table name found in more than one metadata or in none, or
\* a table whose parent is not among the metadatas
C21_CollectionContract ==
    coll.pc = "made" =>
        /\ coll.made.ok \/ coll.made.err = "ValueError"
        /\ coll.made.ok =>
            /\ ArgMetadatas(coll.anymd) # <<>> =>
                 coll.made.val.mds = unique_everseen(ArgMetadatas(coll.anymd),
                                                     ArgMetadatas(coll.anymd))
            /\ coll.made.val.tables =
                 unique_everseen(SelectedTables(coll.anymd, coll.made.val.mds),
                                 SelectedTables(coll.anymd, coll.made.val.mds))
            /\ \A i, j \in DOMAIN coll.made.val.mds :
                 i # j => mds[coll.made.val.mds[i]].logger_name
                            # mds[coll.made.val.mds[j]].logger_name
            /\ \A k \in DOMAIN coll.made.val.tables :
                 Tbl(coll.made.val.tables[k]).parent \in Range(coll.made.val.mds)
        /\ coll.anymd = <<>> => ~ coll.made.ok
        /\ ArgMetadatas(coll.anymd) # <<>> =>
            \A i \in DOMAIN coll.anymd :
              /\ coll.anymd[i].t = "str"
                   /\ Cardinality(TablesNamed(coll.anymd[i].s, ArgMetadatas(coll.anymd))) # 1
                   => ~ coll.made.ok
              /\ coll.anymd[i].t = "MdTable"
                   /\ Tbl(coll.anymd[i].ref).parent \notin Range(ArgMetadatas(coll.anymd))
                   => ~ coll.made.ok

\* C26: wrapping a collection again gives an equal collection: the same
\* metadatas and the same tables, in the same order
C26_WrapIdempotent ==
    coll.pc = "wrapped" =>
        /\ coll.out.ok
        /\ MdCollection_eq(coll.out.val, coll.made.val)

\* C28: against a collection built with a table selection, a file is never
\* resolved to a table outside the tables of the collection
C28_ResolvedTableSelected ==
    ( /\ hm.called
      /\ coll.pc \in {"made", "wrapped"}
      /\ ArgTables(coll.anymd) # <<>>
      /\ hm.out.kind = "return" )
    => \E k \in DOMAIN coll.out.val.tables :
          TblKey(coll.out.val.tables[k]) = TblKey(hm.out.tblmd)

====
